---------------------------- MODULE Spec2Model ----------------------------
(***************************************************************************)
(* Study-session tracker: the session / pause state machine (models.py),   *)
(* the CSV store (db.py) and the manual sync (api.py).                     *)
(*                                                                         *)
(* Time is counted in ticks, TicksPerSecond ticks to the second, so that   *)
(* int(timedelta.total_seconds()) really truncates.  Python's None is the  *)
(* number None for time and id fields; an optional return value is a       *)
(* sequence: << >> for None / {} and <<v>> for the value v.  Text written  *)
(* to a CSV file is a sequence of numbers: the decimal digits of an int,   *)
(* the <<minute, second, fraction>> fields of an ISO timestamp.            *)
(***************************************************************************)
EXTENDS Integers, Sequences, FiniteSets, TLC

VARIABLES
    clock,          \* datetime.now(), in ticks
    session,        \* the StudySession object: id, is_running, start_time,
                    \* end_time, pause_manager
    next_uuid,      \* the next fresh Pause id (uuid4)
    ret,            \* the last call: [op, val]
    emitted,        \* status_changed messages emitted by the last call
    session_log_endpoint,    \* << >> (None) or <<url>>
    session_pauses_endpoint, \* << >> (None) or <<url>>
    sessions_csv,   \* the rows of sessions.csv, in file order
    pauses_csv,     \* the rows of pauses.csv, in file order
    pc,             \* sync_now: "idle", awaiting a POST ("session_log",
                    \* "session_pauses"), or "done" (sync_unsynced returned)
    prepared,       \* sync_unsynced's locals
    item,           \* index in prepared of the item being sent
    pidx,           \* index in item['pauses'] of the pause being sent
    all_ok,
    sent_pause_ids,
    posts,          \* history: the POSTs of this sync run, with their results
    last_outcome,   \* history: how the last POST of this sync run came back
    location_catalog,   \* the names in locations.csv, in file order
    equipment_catalog,  \* the names in equipment.csv, in file order
    profiles,       \* the rows of profiles.csv: name, location, equipment
    current_location,   \* the tray's environment: the location, the equipment
    current_equipment,  \* and the name of the profile last chosen, << >>
    last_profile        \* for ''

sessionVars == <<clock, session, next_uuid, ret, emitted>>
configVars == <<session_log_endpoint, session_pauses_endpoint>>
storeVars == <<sessions_csv, pauses_csv>>
syncVars == <<pc, prepared, item, pidx, all_ok, sent_pause_ids, posts,
              last_outcome>>
catalogVars == <<location_catalog, equipment_catalog, profiles>>
trayVars == <<current_location, current_equipment, last_profile>>
vars == <<clock, session, next_uuid, ret, emitted, session_log_endpoint,
          session_pauses_endpoint, sessions_csv, pauses_csv, pc, prepared,
          item, pidx, all_ok, sent_pause_ids, posts, last_outcome,
          location_catalog, equipment_catalog, profiles,
          current_location, current_equipment, last_profile>>

(* ----------------------------- bounds --------------------------------- *)
\* datetime resolution: ticks to the second
TicksPerSecond == 2
\* the last tick of the clock
MaxClock == 2
\* the last tick the session-only clock reaches step by step
MaxTime == 3
\* Pause objects ever created
MaxUuid == 2
\* ticks between the two datetime.now() of StudySession.start
MaxSkew == 1
\* session rows sessions.csv holds
MaxRows == 2

\* sessions saved and not yet synced when a sync-only run begins
MaxStored == 2
\* pauses of those sessions together
MaxPauseRows == 2

None == -1
Reasons == {"coffee"}

\* the times of the session-only clock: every tick to MaxTime, and the
\* documented example's 5, 8 and 20 minutes
Times == 0..MaxTime \cup {m * 60 * TicksPerSecond : m \in {5, 8, 20}}

(* ------------------------------ time ---------------------------------- *)
\* int(td.total_seconds()): truncation toward zero of a tick difference
IntSeconds(d) == IF d >= 0 THEN d \div TicksPerSecond
                 ELSE -((-d) \div TicksPerSecond)

\* strftime('%Y%m%d_%H%M%S'): the timestamp cut to its whole second
strftime(t) == t \div TicksPerSecond

(* ------------------------------ Pause --------------------------------- *)
Pause_create(uuid, session_id, reason, now) ==
    [id |-> uuid, session_id |-> session_id, reason |-> reason,
     started_at |-> now, ended_at |-> None, duration_seconds |-> 0]

\* mutant: ended_at is set and the duration is left as created
Pause_end_no_duration(p, now) == [p EXCEPT !.ended_at = now]

\* mutant: the duration is rounded up to the next whole second
Pause_end_rounds_up(p, now) ==
    [p EXCEPT !.ended_at = now,
              !.duration_seconds = IntSeconds(now - p.started_at
                                              + TicksPerSecond - 1)]

Pause_end(p, now) ==
    [p EXCEPT !.ended_at = now,
              !.duration_seconds = IntSeconds(now - p.started_at)]

is_active(p) == p.started_at # None /\ p.ended_at = None

(* --------------------------- PauseManager ----------------------------- *)
EmptyDict == [k \in {} |-> None]
DictSet(d, k, v) == [x \in DOMAIN d \cup {k} |-> IF x = k THEN v ELSE d[x]]
DictDel(d, k) == [x \in DOMAIN d \ {k} |-> d[x]]

PauseManager_init == [active_pauses |-> EmptyDict, completed_pauses |-> << >>]

\* mutant: no check for a pause already active
start_pause_unguarded(pm, session_id, reason, uuid, now) ==
    LET pause == Pause_create(uuid, session_id, reason, now)
    IN [pm |-> [pm EXCEPT !.active_pauses =
                              DictSet(pm.active_pauses, session_id, pause)],
        result |-> <<pause>>]

\* returns [pm, result]: result is << >> (None) or <<pause>>
start_pause(pm, session_id, reason, uuid, now) ==
    IF session_id \in DOMAIN pm.active_pauses
    THEN [pm |-> pm, result |-> << >>]
    ELSE LET pause == Pause_create(uuid, session_id, reason, now)
         IN [pm |-> [pm EXCEPT !.active_pauses =
                                   DictSet(pm.active_pauses, session_id, pause)],
             result |-> <<pause>>]

\* mutant: without an active pause, the last completed pause is ended again
end_pause_again(pm, session_id, now) ==
    IF session_id \notin DOMAIN pm.active_pauses
    THEN [pm |-> [pm EXCEPT !.completed_pauses =
                     IF @ = << >> THEN @
                     ELSE Append(@, Pause_end(@[Len(@)], now))],
          result |-> 0]
    ELSE LET pause == Pause_end(pm.active_pauses[session_id], now)
         IN [pm |-> [active_pauses |-> DictDel(pm.active_pauses, session_id),
                     completed_pauses |-> Append(pm.completed_pauses, pause)],
             result |-> pause.duration_seconds]

\* mutant: the pause that is ended stays in active_pauses
end_pause_keeps_active(pm, session_id, now) ==
    IF session_id \notin DOMAIN pm.active_pauses
    THEN [pm |-> pm, result |-> 0]
    ELSE LET pause == Pause_end(pm.active_pauses[session_id], now)
         IN [pm |-> [active_pauses |-> DictSet(pm.active_pauses, session_id, pause),
                     completed_pauses |-> Append(pm.completed_pauses, pause)],
             result |-> pause.duration_seconds]

\* returns [pm, result]: result is the duration
end_pause(pm, session_id, now) ==
    IF session_id \notin DOMAIN pm.active_pauses
    THEN [pm |-> pm, result |-> 0]
    ELSE LET pause == Pause_end(pm.active_pauses[session_id], now)
         IN [pm |-> [active_pauses |-> DictDel(pm.active_pauses, session_id),
                     completed_pauses |-> Append(pm.completed_pauses, pause)],
             result |-> pause.duration_seconds]

resume_session(pm, session_id, now) == end_pause(pm, session_id, now)

RECURSIVE SumOf(_)
SumOf(ns) == IF ns = << >> THEN 0 ELSE Head(ns) + SumOf(Tail(ns))

RECURSIVE SumDurations(_)
SumDurations(ps) ==
    IF ps = << >> THEN 0
    ELSE Head(ps).duration_seconds + SumDurations(Tail(ps))

ForSession(ps, session_id) == SelectSeq(ps, LAMBDA p : p.session_id = session_id)

get_session_total_pause_time(pm, session_id) ==
    SumDurations(ForSession(pm.completed_pauses, session_id))

get_active_pauses(pm) == {pm.active_pauses[k] : k \in DOMAIN pm.active_pauses}

\* mutant: the active pause comes after the completed pauses
get_session_pauses_active_last(pm, session_id) ==
    ForSession(pm.completed_pauses, session_id)
    \o (IF session_id \in DOMAIN pm.active_pauses
        THEN <<pm.active_pauses[session_id]>> ELSE << >>)

get_session_pauses(pm, session_id) ==
    (IF session_id \in DOMAIN pm.active_pauses
     THEN <<pm.active_pauses[session_id]>> ELSE << >>)
    \o ForSession(pm.completed_pauses, session_id)

get_session_pause_count(pm, session_id) == Len(get_session_pauses(pm, session_id))

(* --------------------------- StudySession ----------------------------- *)
StudySession_init ==
    [id |-> None, is_running |-> FALSE, start_time |-> None, end_time |-> None,
     pause_manager |-> PauseManager_init]

\* the summary of lines 122-134 for end_time and pause manager pm
end_summary(s, end_time, pm) ==
    LET total_duration == IntSeconds(end_time - s.start_time)
        total_pause == get_session_total_pause_time(pm, s.id)
    IN [session_id |-> s.id,
        total_duration |-> total_duration,
        total_pause |-> total_pause,
        active_time |-> total_duration - total_pause,
        pause_count |-> get_session_pause_count(pm, s.id),
        pauses |-> get_session_pauses(pm, s.id)]

\* mutant: the duration runs to now also when the session ends paused
session_end_to_now(s, now) ==
    IF ~s.is_running
    THEN [session |-> s, result |-> << >>]
    ELSE LET paused == s.id \in DOMAIN s.pause_manager.active_pauses
             end_time == IF paused
                         THEN s.pause_manager.active_pauses[s.id].started_at
                         ELSE now
             pm == [s.pause_manager EXCEPT !.active_pauses = DictDel(@, s.id)]
         IN [session |-> [s EXCEPT !.end_time = end_time,
                                   !.pause_manager = pm,
                                   !.is_running = FALSE],
             result |-> <<end_summary(s, now, pm)>>]

\* mutant: an active pause is completed at the end instead of forgotten
session_end_completes_pause(s, now) ==
    IF ~s.is_running
    THEN [session |-> s, result |-> << >>]
    ELSE LET pm == end_pause(s.pause_manager, s.id, now).pm
         IN [session |-> [s EXCEPT !.end_time = now,
                                   !.pause_manager = pm,
                                   !.is_running = FALSE],
             result |-> <<end_summary(s, now, pm)>>]

\* mutant: no is_running guard, a session that has ended is ended again
session_end_unguarded(s, now) ==
    IF s.start_time = None
    THEN [session |-> s, result |-> << >>]
    ELSE LET pm == [s.pause_manager EXCEPT !.active_pauses = DictDel(@, s.id)]
         IN [session |-> [s EXCEPT !.end_time = now,
                                   !.pause_manager = pm,
                                   !.is_running = FALSE],
             result |-> <<end_summary(s, now, pm)>>]

\* StudySession.end on session s at time now: [session, result]; result is
\* << >> for {} and <<summary>> otherwise
session_end(s, now) ==
    IF ~s.is_running
    THEN [session |-> s, result |-> << >>]
    ELSE LET paused == s.id \in DOMAIN s.pause_manager.active_pauses
             end_time == IF paused
                         THEN s.pause_manager.active_pauses[s.id].started_at
                         ELSE now
             pm == IF paused
                   THEN [s.pause_manager EXCEPT !.active_pauses =
                            DictDel(s.pause_manager.active_pauses, s.id)]
                   ELSE s.pause_manager
         IN [session |-> [s EXCEPT !.end_time = end_time,
                                   !.pause_manager = pm,
                                   !.is_running = FALSE],
             result |-> <<end_summary(s, end_time, pm)>>]

(* ------------------------- CSV text formats --------------------------- *)
\* str(n) as csv.DictWriter writes an int: its decimal digits
RECURSIVE Digits(_)
Digits(n) == IF n < 10 THEN <<n>> ELSE Digits(n \div 10) \o <<n % 10>>

str(n) == IF n < 0 THEN <<None>> \o Digits(-n) ELSE Digits(n)

\* int(text) of a non-negative decimal
RECURSIVE ParseInt(_)
ParseInt(ds) ==
    IF Len(ds) = 1 THEN ds[1]
    ELSE 10 * ParseInt(SubSeq(ds, 1, Len(ds) - 1)) + ds[Len(ds)]

\* datetime.isoformat(): minutes (and all above), seconds, fraction
isoformat(t) ==
    <<t \div (60 * TicksPerSecond), (t \div TicksPerSecond) % 60,
      t % TicksPerSecond>>

\* datetime.fromisoformat()
fromisoformat(ts) == (ts[1] * 60 + ts[2]) * TicksPerSecond + ts[3]

(* --------------------------- SessionDatabase -------------------------- *)
\* (notes, location, equipment) a caller passes to save_session
SaveArgs == {<<"done", "home", "laptop">>}

\* mutant: the active_time_seconds column is filled with the total duration
session_row_active_is_total(summary, s, notes, location, equipment) ==
    [session_id |-> summary.session_id,
     started_at |-> IF s.start_time # None THEN isoformat(s.start_time) ELSE << >>,
     ended_at |-> IF s.end_time # None THEN isoformat(s.end_time) ELSE << >>,
     total_duration_seconds |-> str(summary.total_duration),
     active_time_seconds |-> str(summary.total_duration),
     pause_count |-> str(summary.pause_count),
     total_pause_duration_seconds |-> str(summary.total_pause),
     notes |-> notes, location |-> location, equipment |-> equipment]

session_row(summary, s, notes, location, equipment) ==
    [session_id |-> summary.session_id,
     started_at |-> IF s.start_time # None THEN isoformat(s.start_time) ELSE << >>,
     ended_at |-> IF s.end_time # None THEN isoformat(s.end_time) ELSE << >>,
     total_duration_seconds |-> str(summary.total_duration),
     active_time_seconds |-> str(summary.active_time),
     pause_count |-> str(summary.pause_count),
     total_pause_duration_seconds |-> str(summary.total_pause),
     notes |-> notes, location |-> location, equipment |-> equipment]

pause_row(p) ==
    [id |-> p.id, session_id |-> p.session_id, reason |-> p.reason,
     started_at |-> IF p.started_at # None THEN isoformat(p.started_at) ELSE << >>,
     ended_at |-> IF p.ended_at # None THEN isoformat(p.ended_at) ELSE << >>,
     duration_seconds |-> str(p.duration_seconds)]

\* mutant: a running session is written as it stands, without end()
save_summary_leaves_running(s, now) ==
    IF s.is_running
    THEN [session |-> s, summary |-> <<end_summary(s, now, s.pause_manager)>>]
    ELSE IF s.start_time # None /\ s.end_time # None
    THEN [session |-> s,
          summary |-> <<end_summary(s, s.end_time, s.pause_manager)>>]
    ELSE [session |-> s, summary |-> << >>]

\* mutant: a session that never started is written with an empty summary
save_summary_writes_unstarted(s, now) ==
    LET r == session_end(s, now)
        e == r.session
    IN IF r.result # << >> THEN [session |-> e, summary |-> r.result]
       ELSE [session |-> e,
             summary |-> <<[session_id |-> e.id,
                            total_duration |-> 0,
                            total_pause |-> 0,
                            active_time |-> 0,
                            pause_count |-> 0,
                            pauses |-> << >>]>>]

\* mutant: an ended session is ended again, at now, to get the summary
save_summary_reends(s, now) ==
    LET r == session_end(s, now)
        e == r.session
    IN IF r.result # << >> THEN [session |-> e, summary |-> r.result]
       ELSE IF e.start_time # None /\ e.end_time # None /\ ~e.is_running
       THEN [session |-> e,
             summary |-> <<end_summary(e, now, e.pause_manager)>>]
       ELSE [session |-> e, summary |-> << >>]

\* the summary save_session works with: [session, summary]; summary is
\* << >> when nothing is to be written
save_summary(s, now) ==
    LET r == session_end(s, now)
        e == r.session
    IN IF r.result # << >> THEN [session |-> e, summary |-> r.result]
       ELSE IF e.start_time # None /\ e.end_time # None /\ ~e.is_running
       THEN LET total_duration == IntSeconds(e.end_time - e.start_time)
                total_pause == get_session_total_pause_time(e.pause_manager, e.id)
                pause_count == get_session_pause_count(e.pause_manager, e.id)
            IN [session |-> e,
                summary |-> <<[session_id |-> e.id,
                               total_duration |-> total_duration,
                               total_pause |-> total_pause,
                               active_time |-> total_duration - total_pause,
                               pause_count |-> pause_count,
                               pauses |-> get_session_pauses(e.pause_manager, e.id)]>>]
       ELSE [session |-> e, summary |-> << >>]

\* mutant: the last pause of the summary is not written
saved_rows_without_last_pause(s, summary, notes, location, equipment) ==
    [sessions |-> <<session_row(summary, s, notes, location, equipment)>>,
     pauses |-> [i \in 1..(IF summary.pauses = << >> THEN 0
                           ELSE Len(summary.pauses) - 1) |->
                    pause_row(summary.pauses[i])]]

\* the rows save_session appends: [sessions, pauses]
saved_rows(s, summary, notes, location, equipment) ==
    [sessions |-> <<session_row(summary, s, notes, location, equipment)>>,
     pauses |-> [i \in 1..Len(summary.pauses) |-> pause_row(summary.pauses[i])]]

fetch_unsynced_sessions(sessions) == sessions

fetch_unsynced_pauses_for_session(pauses, session_id) ==
    SelectSeq(pauses, LAMBDA row : row.session_id = session_id)

SeqRange(q) == {q[i] : i \in 1..Len(q)}

\* mutant: only the rows of the first id given are removed
delete_pauses_by_ids_first_only(pauses, pause_ids) ==
    IF pause_ids = << >> THEN [rows |-> pauses, deleted |-> 0]
    ELSE LET rows == SelectSeq(pauses, LAMBDA row : row.id # pause_ids[1])
         IN [rows |-> rows, deleted |-> Len(pauses) - Len(rows)]

\* mutant: the rows of the ids are kept and marked as sent
delete_pauses_by_ids_marks_sent(pauses, pause_ids) ==
    [rows |-> [i \in 1..Len(pauses) |->
                  IF pauses[i].id \in SeqRange(pause_ids)
                  THEN [pauses[i] EXCEPT !.reason = "sent"] ELSE pauses[i]],
     deleted |-> Cardinality({i \in 1..Len(pauses) :
                                 pauses[i].id \in SeqRange(pause_ids)})]

\* delete_pauses_by_ids: [rows, deleted]
delete_pauses_by_ids(pauses, pause_ids) ==
    IF pause_ids = << >> THEN [rows |-> pauses, deleted |-> 0]
    ELSE LET rows == SelectSeq(pauses, LAMBDA row : row.id \notin SeqRange(pause_ids))
         IN [rows |-> rows, deleted |-> Len(pauses) - Len(rows)]

\* mutant: only the first row of the session_id is removed
delete_session_first_row_only(sessions, session_id) ==
    LET hits == {i \in 1..Len(sessions) : sessions[i].session_id = session_id}
    IN IF hits = {} THEN [rows |-> sessions, deleted |-> 0]
       ELSE LET first == CHOOSE i \in hits : \A j \in hits : i <= j
            IN [rows |-> SubSeq(sessions, 1, first - 1)
                           \o SubSeq(sessions, first + 1, Len(sessions)),
                deleted |-> 1]

\* [rows, deleted]
delete_session_by_session_id(sessions, session_id) ==
    LET rows == SelectSeq(sessions, LAMBDA row : row.session_id # session_id)
    IN [rows |-> rows, deleted |-> Len(sessions) - Len(rows)]

(* --------------------- catalogs and profiles (db.py) ------------------ *)
\* A name is text in pieces: " " is a run of whitespace, any other piece a
\* run of other characters.  str.strip() drops the whitespace at both ends.
RECURSIVE lstrip(_)
lstrip(name) ==
    IF name # << >> /\ Head(name) = " " THEN lstrip(Tail(name)) ELSE name

RECURSIVE rstrip(_)
rstrip(name) ==
    IF name # << >> /\ name[Len(name)] = " "
    THEN rstrip(SubSeq(name, 1, Len(name) - 1))
    ELSE name

strip(name) == rstrip(lstrip(name))

DefaultLocations == <<<<"home">>, <<"class">>, <<"transports">>>>

get_location_catalog(catalog) == SelectSeq(catalog, LAMBDA n : n # << >>)

\* add_location: [rows, result]
add_location(catalog, name) ==
    LET n == strip(name)
    IN IF n = << >> THEN [rows |-> catalog, result |-> FALSE]
       ELSE IF n \in SeqRange(get_location_catalog(catalog))
       THEN [rows |-> catalog, result |-> TRUE]
       ELSE [rows |-> Append(catalog, n), result |-> TRUE]

\* remove_location: [rows, result]; result is the number of rows removed
remove_location(catalog, name) ==
    LET rows == SelectSeq(catalog, LAMBDA n : n # name)
    IN [rows |-> rows, result |-> Len(catalog) - Len(rows)]

get_equipment_catalog(catalog) == SelectSeq(catalog, LAMBDA n : n # << >>)

add_equipment(catalog, name) ==
    LET n == strip(name)
    IN IF n = << >> THEN [rows |-> catalog, result |-> FALSE]
       ELSE IF n \in SeqRange(get_equipment_catalog(catalog))
       THEN [rows |-> catalog, result |-> TRUE]
       ELSE [rows |-> Append(catalog, n), result |-> TRUE]

remove_equipment(catalog, name) ==
    LET rows == SelectSeq(catalog, LAMBDA n : n # name)
    IN [rows |-> rows, result |-> Len(catalog) - Len(rows)]

\* save_profile: [rows, result]; every row of the name is replaced, and a
\* row is appended when there was none
save_profile(rows, name, location, equipment) ==
    LET n == strip(name)
        new == [name |-> n, location |-> location, equipment |-> equipment]
        updated == \E i \in 1..Len(rows) : rows[i].name = n
        replaced == [i \in 1..Len(rows) |->
                        IF rows[i].name = n THEN new ELSE rows[i]]
    IN IF n = << >> THEN [rows |-> rows, result |-> FALSE]
       ELSE [rows |-> IF updated THEN replaced ELSE Append(replaced, new),
             result |-> TRUE]

\* delete_profile: [rows, result]; result is the number of rows removed
delete_profile(rows, name) ==
    LET kept == SelectSeq(rows, LAMBDA r : r.name # name)
    IN [rows |-> kept, result |-> Len(rows) - Len(kept)]

\* rename_profile: [rows, result]
rename_profile(rows, old_name, new_name) ==
    LET n == strip(new_name)
        changed == \E i \in 1..Len(rows) : rows[i].name = old_name
    IN IF n = << >> \/ ~changed THEN [rows |-> rows, result |-> FALSE]
       ELSE [rows |-> [i \in 1..Len(rows) |->
                          IF rows[i].name = old_name
                          THEN [rows[i] EXCEPT !.name = n] ELSE rows[i]],
             result |-> TRUE]

(* -------------------------- SessionAPIManager ------------------------- *)
\* the environment: N8N_BASE_URL and the two endpoint settings
Environments ==
    {[base_url |-> "", log_ep |-> "session-log", pauses_ep |-> "session-pauses"],
     [base_url |-> "http://n8n", log_ep |-> "session-log",
      pauses_ep |-> "session-pauses"],
     [base_url |-> "http://n8n", log_ep |-> "session-log", pauses_ep |-> ""],
     [base_url |-> "http://n8n", log_ep |-> "", pauses_ep |-> "session-pauses"]}

AbsoluteUrls == {"https://hooks/session-log"}

\* build_url: << >> for None
build_url(base_url, ep) ==
    IF ep = "" THEN << >>
    ELSE IF ep \in AbsoluteUrls THEN <<ep>>
    ELSE IF base_url = "" THEN << >>
    ELSE <<[base |-> base_url, path |-> ep]>>

\* mutant: the timestamp is cut to its whole second, the seconds kept
format_ts_for_api_whole_second(ts) ==
    isoformat(LET dt == fromisoformat(ts) IN dt - (dt % TicksPerSecond))

\* _format_ts_for_api: second and microsecond set to zero
format_ts_for_api(ts) == isoformat(LET dt == fromisoformat(ts)
                                   IN dt - (dt % (60 * TicksPerSecond)))

session_payload(s) ==
    [session_id |-> s.session_id,
     started_at |-> IF s.started_at # << >> THEN format_ts_for_api(s.started_at)
                    ELSE <<None>>,
     ended_at |-> IF s.ended_at # << >> THEN format_ts_for_api(s.ended_at)
                  ELSE <<None>>,
     total_duration_seconds |-> s.total_duration_seconds,
     pause_count |-> s.pause_count,
     total_pause_duration_seconds |-> s.total_pause_duration_seconds,
     notes |-> s.notes, location |-> s.location, equipment |-> s.equipment]

pause_payload(p) ==
    [id |-> p.id, session_id |-> p.session_id, reason |-> p.reason,
     started_at |-> IF p.started_at # << >> THEN format_ts_for_api(p.started_at)
                    ELSE <<None>>,
     ended_at |-> IF p.ended_at # << >> THEN format_ts_for_api(p.ended_at)
                  ELSE <<None>>,
     duration_seconds |-> p.duration_seconds]

\* mutant: the items are prepared last session row first
prepare_reversed(sessions, pauses) ==
    [i \in 1..Len(sessions) |->
        LET row == sessions[Len(sessions) + 1 - i]
        IN [session |-> session_payload(row),
            pauses |-> LET rows == fetch_unsynced_pauses_for_session(
                                       pauses, row.session_id)
                       IN [j \in 1..Len(rows) |-> pause_payload(rows[j])]]]

\* lines 78-119: one item per session row, with the pause rows of its id
prepare(sessions, pauses) ==
    [i \in 1..Len(sessions) |->
        [session |-> session_payload(sessions[i]),
         pauses |-> LET rows == fetch_unsynced_pauses_for_session(
                                    pauses, sessions[i].session_id)
                    IN [j \in 1..Len(rows) |-> pause_payload(rows[j])]]]

\* what can come back from one POST
Outcomes ==
    {[kind |-> "status", status |-> n] : n \in {199, 200, 299, 300, 404}}
    \cup {[kind |-> "timeout", status |-> 0], [kind |-> "error", status |-> 0]}

\* mutant: a POST that got no response is taken for acknowledged
post_json_timeout_ok(url, outcome) ==
    IF url = << >> THEN FALSE
    ELSE IF outcome.kind = "status"
         THEN 200 <= outcome.status /\ outcome.status < 300
         ELSE TRUE

\* _post_json: TRUE iff a response came with 200 <= status < 300
post_json(url, outcome) ==
    IF url = << >> THEN FALSE
    ELSE IF outcome.kind = "status"
         THEN 200 <= outcome.status /\ outcome.status < 300
         ELSE FALSE

Sig(msg) == [msg |-> msg, arg |-> None]
SigFor(msg, arg) == [msg |-> msg, arg |-> arg]

(* ------------------------------ actions ------------------------------- *)
NoSync ==
    /\ pc = "idle"
    /\ prepared = << >>
    /\ item = 0
    /\ pidx = 0
    /\ all_ok = TRUE
    /\ sent_pause_ids = << >>
    /\ posts = << >>
    /\ last_outcome = "none"

\* ensure_csv_headers on a first run: the default locations, no equipment,
\* no profile
InitCatalogs ==
    /\ location_catalog = DefaultLocations
    /\ equipment_catalog = << >>
    /\ profiles = << >>

\* StudySessionTray.__init__ with no last_profile setting
InitEnvironment ==
    /\ current_location = << >>
    /\ current_equipment = << >>
    /\ last_profile = << >>

InitSession ==
    /\ clock = 0
    /\ session = StudySession_init
    /\ next_uuid = 1
    /\ ret = [op |-> "init", val |-> << >>]
    /\ emitted = << >>
    /\ sessions_csv = << >>
    /\ pauses_csv = << >>
    /\ NoSync
    /\ InitCatalogs
    /\ InitEnvironment

Init ==
    /\ InitSession
    /\ \E env \in Environments :
        /\ session_log_endpoint = build_url(env.base_url, env.log_ep)
        /\ session_pauses_endpoint = build_url(env.base_url, env.pauses_ep)

\* construction with N8N_BASE_URL unset: build_url returns None
InitUnconfigured ==
    /\ InitSession
    /\ session_log_endpoint = build_url("", "session-log")
    /\ session_pauses_endpoint = build_url("", "session-pauses")

\* the wall clock moves on
tick ==
    /\ clock < MaxClock
    /\ clock' = clock + 1
    /\ UNCHANGED <<session, next_uuid, ret, emitted, configVars, catalogVars, trayVars, storeVars, syncVars>>

\* mutant: start() on a running session starts it afresh
start_restarts ==
    /\ pc = "idle"
    /\ \E d \in 0..MaxSkew :
         /\ d = 0 \/ clock + d <= MaxClock
         /\ clock' = clock + d
         /\ session' = [id |-> strftime(clock), is_running |-> TRUE,
                        start_time |-> clock + d,
                        end_time |-> session.end_time,
                        pause_manager |-> PauseManager_init]
         /\ ret' = [op |-> "start", val |-> TRUE]
         /\ emitted' = <<Sig("Running")>>
         /\ UNCHANGED next_uuid
    /\ UNCHANGED <<configVars, catalogVars, trayVars, storeVars, syncVars>>

\* mutant: start() keeps the pause manager of the session before
start_keeps_pause_manager ==
    /\ pc = "idle"
    /\ IF session.is_running
       THEN /\ ret' = [op |-> "start", val |-> FALSE]
            /\ emitted' = << >>
            /\ UNCHANGED <<clock, session, next_uuid>>
       ELSE \E d \in 0..MaxSkew :
            /\ d = 0 \/ clock + d <= MaxClock
            /\ clock' = clock + d
            /\ session' = [id |-> strftime(clock), is_running |-> TRUE,
                           start_time |-> clock + d,
                           end_time |-> session.end_time,
                           pause_manager |-> session.pause_manager]
            /\ ret' = [op |-> "start", val |-> TRUE]
            /\ emitted' = <<Sig("Running")>>
            /\ UNCHANGED next_uuid
    /\ UNCHANGED <<configVars, catalogVars, trayVars, storeVars, syncVars>>

\* mutant: start() is refused on a session that has ended
start_refuses_ended ==
    /\ pc = "idle"
    /\ IF session.is_running \/ session.end_time # None
       THEN /\ ret' = [op |-> "start", val |-> FALSE]
            /\ emitted' = << >>
            /\ UNCHANGED <<clock, session, next_uuid>>
       ELSE \E d \in 0..MaxSkew :
            /\ d = 0 \/ clock + d <= MaxClock
            /\ clock' = clock + d
            /\ session' = [id |-> strftime(clock), is_running |-> TRUE,
                           start_time |-> clock + d,
                           end_time |-> session.end_time,
                           pause_manager |-> PauseManager_init]
            /\ ret' = [op |-> "start", val |-> TRUE]
            /\ emitted' = <<Sig("Running")>>
            /\ UNCHANGED next_uuid
    /\ UNCHANGED <<configVars, catalogVars, trayVars, storeVars, syncVars>>

\* StudySession.start: the id is read from the clock first, start_time after
start ==
    /\ pc = "idle"
    /\ IF session.is_running
       THEN /\ ret' = [op |-> "start", val |-> FALSE]
            /\ emitted' = << >>
            /\ UNCHANGED <<clock, session, next_uuid>>
       ELSE \E d \in 0..MaxSkew :
            /\ d = 0 \/ clock + d <= MaxClock
            /\ clock' = clock + d
            /\ session' = [id |-> strftime(clock), is_running |-> TRUE,
                           start_time |-> clock + d,
                           end_time |-> session.end_time,
                           pause_manager |-> PauseManager_init]
            /\ ret' = [op |-> "start", val |-> TRUE]
            /\ emitted' = <<Sig("Running")>>
            /\ UNCHANGED next_uuid
    /\ UNCHANGED <<configVars, catalogVars, trayVars, storeVars, syncVars>>

\* StudySession.pause(reason)
pause ==
    /\ pc = "idle"
    /\ \E reason \in Reasons :
       IF ~session.is_running
       THEN /\ ret' = [op |-> "pause", val |-> << >>]
            /\ emitted' = << >>
            /\ UNCHANGED <<session, next_uuid>>
       ELSE /\ session.id \in DOMAIN session.pause_manager.active_pauses
               \/ next_uuid <= MaxUuid
            /\ LET r == start_pause(session.pause_manager, session.id, reason,
                                    next_uuid, clock)
               IN /\ session' = [session EXCEPT !.pause_manager = r.pm]
                  /\ ret' = [op |-> "pause", val |-> r.result]
                  /\ emitted' = IF r.result # << >> THEN <<Sig("Paused")>>
                                ELSE << >>
                  /\ next_uuid' = IF r.result # << >> THEN next_uuid + 1
                                  ELSE next_uuid
    /\ UNCHANGED <<clock, configVars, catalogVars, trayVars, storeVars, syncVars>>

\* StudySession.resume
resume ==
    /\ pc = "idle"
    /\ IF ~session.is_running
       THEN /\ ret' = [op |-> "resume", val |-> 0]
            /\ emitted' = << >>
            /\ UNCHANGED session
       ELSE LET r == resume_session(session.pause_manager, session.id, clock)
            IN /\ session' = [session EXCEPT !.pause_manager = r.pm]
               /\ ret' = [op |-> "resume", val |-> r.result]
               /\ emitted' = IF r.result > 0 THEN <<Sig("Running")>> ELSE << >>
    /\ UNCHANGED <<clock, next_uuid, configVars, catalogVars, trayVars, storeVars, syncVars>>

\* StudySession.end
end ==
    /\ pc = "idle"
    /\ LET r == session_end(session, clock)
       IN /\ session' = r.session
          /\ ret' = [op |-> "end", val |-> r.result]
          /\ emitted' = << >>
    /\ UNCHANGED <<clock, next_uuid, configVars, catalogVars, trayVars, storeVars, syncVars>>

\* the wall clock of the session-only specification: any later time
advance ==
    /\ \E t \in Times : t > clock /\ clock' = t
    /\ UNCHANGED <<session, next_uuid, ret, emitted, configVars, catalogVars, trayVars, storeVars, syncVars>>

NextSession == advance \/ start \/ pause \/ resume \/ end

SpecSession == InitUnconfigured /\ [][NextSession]_vars


\* SessionDatabase.save_session(session, notes, location, equipment)
save_session ==
    /\ pc = "idle"
    /\ \E a \in SaveArgs :
       LET r == save_summary(session, clock)
       IN /\ session' = r.session
          /\ IF r.summary = << >>
             THEN UNCHANGED storeVars
             ELSE LET rows == saved_rows(r.session, r.summary[1], a[1], a[2], a[3])
                  IN /\ Len(sessions_csv) < MaxRows
                     /\ sessions_csv' = sessions_csv \o rows.sessions
                     /\ pauses_csv' = pauses_csv \o rows.pauses
    /\ ret' = [op |-> "save", val |-> << >>]
    /\ emitted' = << >>
    /\ UNCHANGED <<clock, next_uuid, configVars, catalogVars, trayVars, syncVars>>

\* mutant: the run reports 'Sync completed' whatever the POSTs returned
FinishItem_always_completed(sent, aok, em) ==
    LET it == prepared[item]
    IN /\ pauses_csv' = IF sent # << >>
                        THEN delete_pauses_by_ids(pauses_csv, sent).rows
                        ELSE pauses_csv
       /\ sessions_csv' = IF Len(sent) = Len(it.pauses)
                          THEN delete_session_by_session_id(
                                   sessions_csv, it.session.session_id).rows
                          ELSE sessions_csv
       /\ sent_pause_ids' = sent
       /\ all_ok' = aok
       /\ IF item < Len(prepared)
          THEN /\ pc' = "session_log"
               /\ item' = item + 1
               /\ emitted' = em
               /\ UNCHANGED ret
          ELSE /\ pc' = "done"
               /\ item' = item
               /\ emitted' = Append(em, Sig("Sync completed"))
               /\ ret' = [op |-> "sync", val |-> <<TRUE>>]

\* mutant: the session row is deleted whatever became of its pause POSTs
FinishItem_always_deletes_session(sent, aok, em) ==
    LET it == prepared[item]
    IN /\ pauses_csv' = IF sent # << >>
                        THEN delete_pauses_by_ids(pauses_csv, sent).rows
                        ELSE pauses_csv
       /\ sessions_csv' = delete_session_by_session_id(
                              sessions_csv, it.session.session_id).rows
       /\ sent_pause_ids' = sent
       /\ all_ok' = aok
       /\ IF item < Len(prepared)
          THEN /\ pc' = "session_log"
               /\ item' = item + 1
               /\ emitted' = em
               /\ UNCHANGED ret
          ELSE /\ pc' = "done"
               /\ item' = item
               /\ emitted' = Append(em, IF aok THEN Sig("Sync completed")
                                        ELSE Sig("Sync partially completed"))
               /\ ret' = [op |-> "sync", val |-> <<aok>>]

\* mutant: the pauses sent are deleted only when all of the item's were sent
FinishItem_all_or_nothing(sent, aok, em) ==
    LET it == prepared[item]
    IN /\ pauses_csv' = IF sent # << >> /\ Len(sent) = Len(it.pauses)
                        THEN delete_pauses_by_ids(pauses_csv, sent).rows
                        ELSE pauses_csv
       /\ sessions_csv' = IF Len(sent) = Len(it.pauses)
                          THEN delete_session_by_session_id(
                                   sessions_csv, it.session.session_id).rows
                          ELSE sessions_csv
       /\ sent_pause_ids' = sent
       /\ all_ok' = aok
       /\ IF item < Len(prepared)
          THEN /\ pc' = "session_log"
               /\ item' = item + 1
               /\ emitted' = em
               /\ UNCHANGED ret
          ELSE /\ pc' = "done"
               /\ item' = item
               /\ emitted' = Append(em, IF aok THEN Sig("Sync completed")
                                        ELSE Sig("Sync partially completed"))
               /\ ret' = [op |-> "sync", val |-> <<aok>>]

\* lines 151-164, reached when the last POST of an item has returned: the
\* deletions for the item, then the next item's POST or the result
FinishItem(sent, aok, em) ==
    LET it == prepared[item]
    IN /\ pauses_csv' = IF sent # << >>
                        THEN delete_pauses_by_ids(pauses_csv, sent).rows
                        ELSE pauses_csv
       /\ sessions_csv' = IF Len(sent) = Len(it.pauses)
                          THEN delete_session_by_session_id(
                                   sessions_csv, it.session.session_id).rows
                          ELSE sessions_csv
       /\ sent_pause_ids' = sent
       /\ all_ok' = aok
       /\ IF item < Len(prepared)
          THEN /\ pc' = "session_log"
               /\ item' = item + 1
               /\ emitted' = em
               /\ UNCHANGED ret
          ELSE /\ pc' = "done"
               /\ item' = item
               /\ emitted' = Append(em, IF aok THEN Sig("Sync completed")
                                        ELSE Sig("Sync partially completed"))
               /\ ret' = [op |-> "sync", val |-> <<aok>>]

\* mutant: only the session-log endpoint is looked at before the POSTs
sync_unsynced_checks_log_only ==
    /\ pc = "idle"
    /\ LET sessions == fetch_unsynced_sessions(sessions_csv)
       IN IF sessions = << >>
          THEN /\ emitted' = <<Sig("Nothing to sync")>>
               /\ ret' = [op |-> "sync", val |-> <<TRUE>>]
               /\ pc' = "done"
               /\ UNCHANGED <<prepared, item, all_ok>>
          ELSE /\ prepared' = prepare(sessions, pauses_csv)
               /\ IF session_log_endpoint = << >>
                  THEN /\ emitted' = <<Sig("Sync skipped (endpoints not configured)")>>
                       /\ ret' = [op |-> "sync", val |-> <<FALSE>>]
                       /\ pc' = "done"
                       /\ UNCHANGED <<item, all_ok>>
                  ELSE /\ emitted' = << >>
                       /\ ret' = [op |-> "sync", val |-> << >>]
                       /\ pc' = "session_log"
                       /\ item' = 1
                       /\ all_ok' = TRUE
    /\ UNCHANGED <<clock, session, next_uuid, configVars, catalogVars, trayVars, storeVars, pidx,
                   sent_pause_ids, posts, last_outcome>>

\* mutant: the endpoints are looked at before the session rows are read
sync_unsynced_config_first ==
    /\ pc = "idle"
    /\ LET sessions == fetch_unsynced_sessions(sessions_csv)
       IN IF session_log_endpoint = << >> \/ session_pauses_endpoint = << >>
          THEN /\ emitted' = <<Sig("Sync skipped (endpoints not configured)")>>
               /\ ret' = [op |-> "sync", val |-> <<FALSE>>]
               /\ pc' = "done"
               /\ prepared' = prepare(sessions, pauses_csv)
               /\ UNCHANGED <<item, all_ok>>
          ELSE IF sessions = << >>
          THEN /\ emitted' = <<Sig("Nothing to sync")>>
               /\ ret' = [op |-> "sync", val |-> <<TRUE>>]
               /\ pc' = "done"
               /\ UNCHANGED <<prepared, item, all_ok>>
          ELSE /\ prepared' = prepare(sessions, pauses_csv)
               /\ emitted' = << >>
               /\ ret' = [op |-> "sync", val |-> << >>]
               /\ pc' = "session_log"
               /\ item' = 1
               /\ all_ok' = TRUE
    /\ UNCHANGED <<clock, session, next_uuid, configVars, catalogVars, trayVars, storeVars, pidx,
                   sent_pause_ids, posts, last_outcome>>

\* mutant: Sync Now is taken up while a run is waiting for a POST
sync_unsynced_reentrant ==
    /\ pc \in {"idle", "session_log", "session_pauses"}
    /\ LET sessions == fetch_unsynced_sessions(sessions_csv)
       IN IF sessions = << >>
          THEN /\ emitted' = <<Sig("Nothing to sync")>>
               /\ ret' = [op |-> "sync", val |-> <<TRUE>>]
               /\ pc' = "done"
               /\ UNCHANGED <<prepared, item, all_ok>>
          ELSE /\ prepared' = prepare(sessions, pauses_csv)
               /\ IF session_log_endpoint = << >> \/ session_pauses_endpoint = << >>
                  THEN /\ emitted' = <<Sig("Sync skipped (endpoints not configured)")>>
                       /\ ret' = [op |-> "sync", val |-> <<FALSE>>]
                       /\ pc' = "done"
                       /\ UNCHANGED <<item, all_ok>>
                  ELSE /\ emitted' = << >>
                       /\ ret' = [op |-> "sync", val |-> << >>]
                       /\ pc' = "session_log"
                       /\ item' = 1
                       /\ all_ok' = TRUE
    /\ UNCHANGED <<clock, session, next_uuid, configVars, catalogVars, trayVars, storeVars, pidx,
                   sent_pause_ids, posts, last_outcome>>

\* sync_now -> run_async(sync_unsynced()): lines 70-131, up to the first POST
sync_unsynced ==
    /\ pc = "idle"
    /\ LET sessions == fetch_unsynced_sessions(sessions_csv)
       IN IF sessions = << >>
          THEN /\ emitted' = <<Sig("Nothing to sync")>>
               /\ ret' = [op |-> "sync", val |-> <<TRUE>>]
               /\ pc' = "done"
               /\ UNCHANGED <<prepared, item, all_ok>>
          ELSE /\ prepared' = prepare(sessions, pauses_csv)
               /\ IF session_log_endpoint = << >> \/ session_pauses_endpoint = << >>
                  THEN /\ emitted' = <<Sig("Sync skipped (endpoints not configured)")>>
                       /\ ret' = [op |-> "sync", val |-> <<FALSE>>]
                       /\ pc' = "done"
                       /\ UNCHANGED <<item, all_ok>>
                  ELSE /\ emitted' = << >>
                       /\ ret' = [op |-> "sync", val |-> << >>]
                       /\ pc' = "session_log"
                       /\ item' = 1
                       /\ all_ok' = TRUE
    /\ UNCHANGED <<clock, session, next_uuid, configVars, catalogVars, trayVars, storeVars, pidx,
                   sent_pause_ids, posts, last_outcome>>

\* the session-log POST of the current item returns (lines 131-139), and the
\* code runs on to the next POST
session_log_returns(outcome) ==
    /\ pc = "session_log"
    /\ LET s == prepared[item].session
           ok == post_json(session_log_endpoint, outcome)
           aok == all_ok /\ ok
           em == IF ok THEN emitted
                 ELSE Append(emitted, SigFor("session-log failed", s.session_id))
       IN /\ posts' = Append(posts, [item |-> item, kind |-> "session-log",
                                     id |-> s.session_id, ok |-> ok])
          /\ IF prepared[item].pauses # << >>
             THEN /\ pc' = "session_pauses"
                  /\ pidx' = 1
                  /\ sent_pause_ids' = << >>
                  /\ all_ok' = aok
                  /\ emitted' = em
                  /\ UNCHANGED <<item, ret, storeVars>>
             ELSE /\ pidx' = 0
                  /\ FinishItem(<< >>, aok, em)
    /\ UNCHANGED <<clock, session, next_uuid, configVars, catalogVars, trayVars, prepared>>

session_log_response ==
    \E outcome \in Outcomes :
        session_log_returns(outcome) /\ last_outcome' = outcome.kind

\* mutant: the first pause POST that fails ends the item's pause POSTs
session_pauses_returns_stops_on_failure(outcome) ==
    /\ pc = "session_pauses"
    /\ LET p == prepared[item].pauses[pidx]
           pok == post_json(session_pauses_endpoint, outcome)
           sent == IF pok THEN Append(sent_pause_ids, p.id) ELSE sent_pause_ids
           aok == all_ok /\ pok
           em == IF pok THEN emitted
                 ELSE Append(emitted, SigFor("session-pauses failed", p.id))
       IN /\ posts' = Append(posts, [item |-> item, kind |-> "session-pauses",
                                     id |-> p.id, ok |-> pok])
          /\ IF pidx < Len(prepared[item].pauses) /\ pok
             THEN /\ pidx' = pidx + 1
                  /\ sent_pause_ids' = sent
                  /\ all_ok' = aok
                  /\ emitted' = em
                  /\ UNCHANGED <<pc, item, ret, storeVars>>
             ELSE /\ pidx' = pidx
                  /\ FinishItem(sent, aok, em)
    /\ UNCHANGED <<clock, session, next_uuid, configVars, catalogVars, trayVars, prepared>>

\* a session-pauses POST of the current item returns (lines 142-150)
session_pauses_returns(outcome) ==
    /\ pc = "session_pauses"
    /\ LET p == prepared[item].pauses[pidx]
           pok == post_json(session_pauses_endpoint, outcome)
           sent == IF pok THEN Append(sent_pause_ids, p.id) ELSE sent_pause_ids
           aok == all_ok /\ pok
           em == IF pok THEN emitted
                 ELSE Append(emitted, SigFor("session-pauses failed", p.id))
       IN /\ posts' = Append(posts, [item |-> item, kind |-> "session-pauses",
                                     id |-> p.id, ok |-> pok])
          /\ IF pidx < Len(prepared[item].pauses)
             THEN /\ pidx' = pidx + 1
                  /\ sent_pause_ids' = sent
                  /\ all_ok' = aok
                  /\ emitted' = em
                  /\ UNCHANGED <<pc, item, ret, storeVars>>
             ELSE /\ pidx' = pidx
                  /\ FinishItem(sent, aok, em)
    /\ UNCHANGED <<clock, session, next_uuid, configVars, catalogVars, trayVars, prepared>>

session_pauses_response ==
    \E outcome \in Outcomes :
        session_pauses_returns(outcome) /\ last_outcome' = outcome.kind

\* run_async returns to sync_now, which returns to the event loop
run_async ==
    /\ pc = "done"
    /\ pc' = "idle"
    /\ prepared' = << >>
    /\ item' = 0
    /\ pidx' = 0
    /\ all_ok' = TRUE
    /\ sent_pause_ids' = << >>
    /\ posts' = << >>
    /\ last_outcome' = "none"
    /\ UNCHANGED <<sessionVars, configVars, catalogVars, trayVars, storeVars>>

Next ==
    \/ tick
    \/ start
    \/ pause
    \/ resume
    \/ end
    \/ save_session
    \/ sync_unsynced
    \/ session_log_response
    \/ session_pauses_response
    \/ run_async

Spec == Init /\ [][Next]_vars

\* sessions and saves alone, no endpoint configured
NextSave == tick \/ start \/ pause \/ resume \/ end \/ save_session

SpecSave == InitUnconfigured /\ [][NextSave]_vars

(* ------------------- the store a sync run begins with ----------------- *)
\* n rounds of pause(reason) and resume() on pause manager pm, all at now
RECURSIVE TakePauses(_, _, _, _, _)
TakePauses(pm, session_id, n, uuid, now) ==
    IF n = 0 THEN pm
    ELSE LET paused == start_pause(pm, session_id, "coffee", uuid, now).pm
             resumed == resume_session(paused, session_id, now).pm
         IN TakePauses(resumed, session_id, n - 1, uuid + 1, now)

\* a StudySession started at now that has taken n pauses
StartedSession(n, uuid, now) ==
    [id |-> strftime(now), is_running |-> TRUE, start_time |-> now,
     end_time |-> None,
     pause_manager |-> TakePauses(PauseManager_init, strftime(now), n, uuid, now)]

\* what a run of sessions leaves unsynced: plan[i] is the second session i
\* began in and the pauses it took; sessions follow each other in the same
\* second or the next
Plans ==
    UNION {{plan \in [1..n -> [second : 0..(MaxStored - 1),
                               pauses : 0..MaxPauseRows]] :
              /\ n > 0 => plan[1].second = 0
              /\ \A i \in 2..n :
                    plan[i].second \in {plan[i-1].second, plan[i-1].second + 1}
              /\ SumOf([i \in 1..n |-> plan[i].pauses]) <= MaxPauseRows}
           : n \in 0..MaxStored}

\* save_session for each session of the plan, in turn: [sessions, pauses]
RECURSIVE StoreOf(_, _)
StoreOf(plan, uuid) ==
    IF plan = << >> THEN [sessions |-> << >>, pauses |-> << >>]
    ELSE LET now == Head(plan).second * TicksPerSecond
             r == save_summary(StartedSession(Head(plan).pauses, uuid, now), now)
             a == CHOOSE x \in SaveArgs : TRUE
             rows == saved_rows(r.session, r.summary[1], a[1], a[2], a[3])
             rest == StoreOf(Tail(plan), uuid + Head(plan).pauses)
         IN [sessions |-> rows.sessions \o rest.sessions,
             pauses |-> rows.pauses \o rest.pauses]

\* the application starts with sessions of earlier runs in its CSV files
InitStored ==
    /\ clock = 0
    /\ session = StudySession_init
    /\ next_uuid = 1
    /\ ret = [op |-> "init", val |-> << >>]
    /\ emitted = << >>
    /\ NoSync
    /\ InitCatalogs
    /\ InitEnvironment
    /\ \E plan \in Plans :
         /\ sessions_csv = StoreOf(plan, 1).sessions
         /\ pauses_csv = StoreOf(plan, 1).pauses
    /\ \E env \in Environments :
         /\ session_log_endpoint = build_url(env.base_url, env.log_ep)
         /\ session_pauses_endpoint = build_url(env.base_url, env.pauses_ep)

\* Sync Now alone, again and again, on what earlier runs stored
NextSync ==
    \/ sync_unsynced
    \/ session_log_response
    \/ session_pauses_response
    \/ run_async

SpecSync == InitStored /\ [][NextSync]_vars

\* every POST returns: _post_json gives each one a total timeout of 10 s
SpecSyncFair ==
    /\ SpecSync
    /\ WF_vars(session_log_response)
    /\ WF_vars(session_pauses_response)

\* a 2xx response
Acknowledged == [kind |-> "status", status |-> 200]

\* the session-pauses POST of pause id is acknowledged
pause_acknowledged(id) ==
    /\ pc = "session_pauses"
    /\ prepared[item].pauses[pidx].id = id
    /\ session_pauses_returns(Acknowledged)
    /\ last_outcome' = Acknowledged.kind

\* Sync Now is chosen again and again, every POST returns, and of the POSTs
\* of one pause row, made run after run, one is acknowledged in the end
SpecSyncDrain ==
    /\ SpecSync
    /\ WF_vars(sync_unsynced)
    /\ WF_vars(run_async)
    /\ WF_vars(session_log_response)
    /\ WF_vars(session_pauses_response)
    /\ \A id \in 1..MaxPauseRows : SF_vars(pause_acknowledged(id))

(* ---------------- a store whose timestamps span minutes --------------- *)
\* the last minute a stored timestamp lies in
MaxMinute == 2
\* stored times: in each minute its first tick, a tick of its second second
\* and its last tick
PayloadTimes ==
    {m * 60 * TicksPerSecond + x :
        m \in 0..MaxMinute, x \in {0, 3, 60 * TicksPerSecond - 1}}

\* save_session of a session started at st and ended at et that, with n = 1,
\* was paused at pt and resumed at rt
TimedStore(st, pt, rt, et, n) ==
    LET id == strftime(st)
        pm == IF n = 0 THEN PauseManager_init
              ELSE resume_session(
                       start_pause(PauseManager_init, id, "coffee", 1, pt).pm,
                       id, rt).pm
        r == save_summary([id |-> id, is_running |-> TRUE, start_time |-> st,
                           end_time |-> None, pause_manager |-> pm], et)
        a == CHOOSE x \in SaveArgs : TRUE
    IN saved_rows(r.session, r.summary[1], a[1], a[2], a[3])

\* the application starts with one such session in its CSV files
InitTimed ==
    /\ clock = 0
    /\ session = StudySession_init
    /\ next_uuid = 1
    /\ ret = [op |-> "init", val |-> << >>]
    /\ emitted = << >>
    /\ NoSync
    /\ InitCatalogs
    /\ InitEnvironment
    /\ \E st, pt, rt, et \in PayloadTimes : \E n \in 0..1 :
         /\ st <= pt /\ pt <= rt /\ rt <= et
         /\ n = 0 => (pt = st /\ rt = st)
         /\ sessions_csv = TimedStore(st, pt, rt, et, n).sessions
         /\ pauses_csv = TimedStore(st, pt, rt, et, n).pauses
    /\ \E env \in Environments :
         /\ session_log_endpoint = build_url(env.base_url, env.log_ep)
         /\ session_pauses_endpoint = build_url(env.base_url, env.pauses_ep)

SpecWire == InitTimed /\ [][NextSync]_vars

(* ------------------ SessionDatabase called on its own ---------------- *)
\* db.delete_session_by_session_id(session_id)
db_delete_session(session_id) ==
    /\ pc = "idle"
    /\ LET r == delete_session_by_session_id(sessions_csv, session_id)
       IN /\ sessions_csv' = r.rows
          /\ ret' = [op |-> "delete_session", val |-> <<session_id, r.deleted>>]
    /\ pauses_csv' = pauses_csv
    /\ emitted' = << >>
    /\ UNCHANGED <<clock, session, next_uuid, configVars, catalogVars, trayVars, syncVars>>

\* the session ids a caller asks for: those of the stored sessions, and one
\* that no session has
StoredIds == 0..MaxStored

delete_session == \E session_id \in StoredIds : db_delete_session(session_id)

SpecStore == InitStored /\ [][delete_session]_vars

\* db.delete_pauses_by_ids(pause_ids)
db_delete_pauses(pause_ids) ==
    /\ pc = "idle"
    /\ LET r == delete_pauses_by_ids(pauses_csv, pause_ids)
       IN /\ pauses_csv' = r.rows
          /\ ret' = [op |-> "delete_pauses", val |-> <<pause_ids, r.deleted>>]
    /\ sessions_csv' = sessions_csv
    /\ emitted' = << >>
    /\ UNCHANGED <<clock, session, next_uuid, configVars, catalogVars, trayVars, syncVars>>

\* the ids a caller passes: none, one or two, of stored pauses or of none,
\* the same id twice among them
PauseIdLists ==
    {<< >>} \cup {<<a>> : a \in 1..(MaxPauseRows + 1)}
            \cup {<<a, b>> : a, b \in 1..(MaxPauseRows + 1)}

delete_pauses == \E pause_ids \in PauseIdLists : db_delete_pauses(pause_ids)

\* the database called on its own, with a StudySession that never started
NextDb == delete_session \/ delete_pauses \/ save_session

SpecDb == InitStored /\ [][NextDb]_vars

(* ------------- the catalog and profile screens (dialogs.py) ----------- *)
\* rows profiles.csv holds
MaxProfiles == 2

\* what a caller passes for a location, an equipment and a profile name:
\* nothing, whitespace, a name, and a name with whitespace around it
LocationInputs == {<< >>, <<" ">>, <<"home">>, <<" ", "home">>, <<"lab">>,
                   <<"lab", " ">>}
EquipmentInputs == {<< >>, <<"laptop">>, <<" ", "laptop", " ">>}
ProfileInputs == {<< >>, <<" ">>, <<"desk">>, <<"desk", " ">>, <<"train">>}
ProfileLocations == {<<"home">>, <<"lab">>}
ProfileEquipment == {<<"laptop">>}

db_add_location ==
    /\ pc = "idle"
    /\ \E name \in LocationInputs :
         LET r == add_location(location_catalog, name)
         IN /\ location_catalog' = r.rows
            /\ ret' = [op |-> "add_location", val |-> <<name, r.result>>]
    /\ emitted' = << >>
    /\ UNCHANGED <<clock, session, next_uuid, configVars, storeVars, syncVars, trayVars,
                   equipment_catalog, profiles>>

db_remove_location ==
    /\ pc = "idle"
    /\ \E name \in LocationInputs :
         LET r == remove_location(location_catalog, name)
         IN /\ location_catalog' = r.rows
            /\ ret' = [op |-> "remove_location", val |-> <<name, r.result>>]
    /\ emitted' = << >>
    /\ UNCHANGED <<clock, session, next_uuid, configVars, storeVars, syncVars, trayVars,
                   equipment_catalog, profiles>>

db_add_equipment ==
    /\ pc = "idle"
    /\ \E name \in EquipmentInputs :
         LET r == add_equipment(equipment_catalog, name)
         IN /\ equipment_catalog' = r.rows
            /\ ret' = [op |-> "add_equipment", val |-> <<name, r.result>>]
    /\ emitted' = << >>
    /\ UNCHANGED <<clock, session, next_uuid, configVars, storeVars, syncVars, trayVars,
                   location_catalog, profiles>>

db_remove_equipment ==
    /\ pc = "idle"
    /\ \E name \in EquipmentInputs :
         LET r == remove_equipment(equipment_catalog, name)
         IN /\ equipment_catalog' = r.rows
            /\ ret' = [op |-> "remove_equipment", val |-> <<name, r.result>>]
    /\ emitted' = << >>
    /\ UNCHANGED <<clock, session, next_uuid, configVars, storeVars, syncVars, trayVars,
                   location_catalog, profiles>>

db_save_profile ==
    /\ pc = "idle"
    /\ \E name \in ProfileInputs, location \in ProfileLocations,
          equipment \in ProfileEquipment :
         LET r == save_profile(profiles, name, location, equipment)
         IN /\ Len(r.rows) <= MaxProfiles
            /\ profiles' = r.rows
            /\ ret' = [op |-> "save_profile", val |-> <<name, r.result>>]
    /\ emitted' = << >>
    /\ UNCHANGED <<clock, session, next_uuid, configVars, storeVars, syncVars, trayVars,
                   location_catalog, equipment_catalog>>

db_delete_profile ==
    /\ pc = "idle"
    /\ \E name \in ProfileInputs :
         LET r == delete_profile(profiles, name)
         IN /\ profiles' = r.rows
            /\ ret' = [op |-> "delete_profile", val |-> <<name, r.result>>]
    /\ emitted' = << >>
    /\ UNCHANGED <<clock, session, next_uuid, configVars, storeVars, syncVars, trayVars,
                   location_catalog, equipment_catalog>>

db_rename_profile ==
    /\ pc = "idle"
    /\ \E old_name \in ProfileInputs, new_name \in ProfileInputs :
         LET r == rename_profile(profiles, old_name, new_name)
         IN /\ profiles' = r.rows
            /\ ret' = [op |-> "rename_profile",
                       val |-> <<old_name, new_name, r.result>>]
    /\ emitted' = << >>
    /\ UNCHANGED <<clock, session, next_uuid, configVars, storeVars, syncVars, trayVars,
                   location_catalog, equipment_catalog>>

NextCatalog ==
    \/ db_add_location
    \/ db_remove_location
    \/ db_add_equipment
    \/ db_remove_equipment
    \/ db_save_profile
    \/ db_delete_profile
    \/ db_rename_profile

SpecCatalog == InitUnconfigured /\ [][NextCatalog]_vars

(* ------------------------- StudySessionTray --------------------------- *)
get_profiles(rows) == rows

\* get_profile: << >> for None, <<row>> for the first row of the name
get_profile(rows, name) ==
    LET n == strip(name)
        hits == SelectSeq(rows, LAMBDA r : r.name = n)
    IN IF n = << >> \/ hits = << >> THEN << >> ELSE <<hits[1]>>

\* ", ".join(items)
RECURSIVE join(_)
join(items) ==
    IF items = << >> THEN << >>
    ELSE IF Len(items) = 1 THEN items[1]
    ELSE items[1] \o <<", ">> \o join(Tail(items))

\* get_result's loop: add_equipment(item) for each checked item
RECURSIVE add_equipment_items(_, _)
add_equipment_items(catalog, items) ==
    IF items = << >> THEN catalog
    ELSE add_equipment_items(add_equipment(catalog, Head(items)).rows, Tail(items))

\* StudySession.start on session s, its two datetime.now() being now and
\* started: [session, result]
StudySession_start(s, now, started) ==
    IF s.is_running THEN [session |-> s, result |-> FALSE]
    ELSE [session |-> [id |-> strftime(now), is_running |-> TRUE,
                       start_time |-> started, end_time |-> s.end_time,
                       pause_manager |-> PauseManager_init],
          result |-> TRUE]

\* mutant: a paused session is split as end_session would end it
split_forgets_pause(s, now) == session_end(s, now)

\* lines 281-291 of change_profile_during_session: an active pause is closed
\* by resume(), then end(): [session, result, resumed]
split_end(s, now) ==
    LET r == IF get_active_pauses(s.pause_manager) # {} /\ s.is_running
             THEN resume_session(s.pause_manager, s.id, now)
             ELSE [pm |-> s.pause_manager, result |-> 0]
    IN session_end([s EXCEPT !.pause_manager = r.pm], now)

\* the profiles Settings has stored, with their locations and equipment in
\* the catalogs
TrayProfiles ==
    <<[name |-> <<"desk">>, location |-> <<"home">>, equipment |-> <<"laptop">>],
      [name |-> <<"train">>, location |-> <<"lab">>, equipment |-> <<"tablet">>]>>

\* what EnvironmentDialog returns when accepted: a profile selected and not
\* loaded, a location typed and two items checked
EnvironmentChoices ==
    {[profile |-> <<"train">>, location |-> <<" ", "cafe">>,
      equipment |-> <<<<"laptop">>, <<"tablet">>>>]}

\* the note typed in end_session's dialog
TrayNotes == {"done"}

\* StudySessionTray.__init__ on a first run of the tracker with profiles
\* set up, N8N_BASE_URL unset
InitTray ==
    /\ clock = 0
    /\ session = StudySession_init
    /\ next_uuid = 1
    /\ ret = [op |-> "init", val |-> << >>]
    /\ emitted = << >>
    /\ sessions_csv = << >>
    /\ pauses_csv = << >>
    /\ NoSync
    /\ location_catalog = Append(DefaultLocations, <<"lab">>)
    /\ equipment_catalog = <<<<"laptop">>, <<"tablet">>>>
    /\ profiles = TrayProfiles
    /\ InitEnvironment
    /\ session_log_endpoint = build_url("", "session-log")
    /\ session_pauses_endpoint = build_url("", "session-pauses")

\* StudySessionTray.start_session
start_session ==
    /\ pc = "idle"
    /\ IF session.is_running
       THEN /\ ret' = [op |-> "start_session", val |-> FALSE]
            /\ emitted' = << >>
            /\ UNCHANGED <<clock, session, trayVars>>
       ELSE /\ LET prof == get_profile(profiles, last_profile)
               IN IF last_profile = << >> THEN UNCHANGED trayVars
                  ELSE IF prof # << >>
                  THEN /\ current_location' = prof[1].location
                       /\ current_equipment' = prof[1].equipment
                       /\ UNCHANGED last_profile
                  ELSE /\ last_profile' = << >>
                       /\ UNCHANGED <<current_location, current_equipment>>
            /\ \E d \in 0..MaxSkew :
                 /\ d = 0 \/ clock + d <= MaxClock
                 /\ clock' = clock + d
                 /\ session' = StudySession_start(session, clock, clock + d).session
            /\ ret' = [op |-> "start_session", val |-> TRUE]
            /\ emitted' = <<Sig("Running")>>
    /\ UNCHANGED <<next_uuid, configVars, catalogVars, storeVars, syncVars>>

\* StudySessionTray.end_session, the dialog accepted
end_session ==
    /\ pc = "idle"
    /\ IF ~session.is_running
       THEN /\ ret' = [op |-> "end_session", val |-> << >>]
            /\ emitted' = << >>
            /\ UNCHANGED <<session, storeVars>>
       ELSE \E notes \in TrayNotes :
            LET e == session_end(session, clock)
                r == save_summary(e.session, clock)
                rows == saved_rows(r.session, r.summary[1], notes,
                                   current_location, current_equipment)
            IN /\ Len(sessions_csv) < MaxRows
               /\ sessions_csv' = sessions_csv \o rows.sessions
               /\ pauses_csv' = pauses_csv \o rows.pauses
               /\ session' = StudySession_init
               /\ ret' = [op |-> "end_session", val |-> e.result]
               /\ emitted' = << >>
    /\ UNCHANGED <<clock, next_uuid, configVars, catalogVars, trayVars, syncVars>>

\* StudySessionTray.change_profile, the dialog accepted
change_profile ==
    /\ pc = "idle"
    /\ \E choice \in EnvironmentChoices :
         LET loc == strip(choice.location)
         IN /\ choice.profile = << >>
               \/ \E i \in 1..Len(profiles) : profiles[i].name = choice.profile
            /\ location_catalog' = IF loc # << >>
                                   THEN add_location(location_catalog, loc).rows
                                   ELSE location_catalog
            /\ equipment_catalog' =
                   add_equipment_items(equipment_catalog, choice.equipment)
            /\ current_location' = loc
            /\ current_equipment' = join(choice.equipment)
            /\ last_profile' = choice.profile
            /\ ret' = [op |-> "change_profile", val |-> choice.profile]
    /\ emitted' = << >>
    /\ UNCHANGED <<clock, session, next_uuid, configVars, storeVars, syncVars,
                   profiles>>

\* StudySessionTray.change_profile_during_session, a profile selected and the
\* split confirmed
change_profile_during_session ==
    IF ~session.is_running THEN change_profile
    ELSE /\ pc = "idle"
         /\ \E i \in 1..Len(get_profiles(profiles)) :
              LET selected == get_profiles(profiles)[i].name
                  prof == get_profile(profiles, selected)
                  resumed == IF get_active_pauses(session.pause_manager) # {}
                             THEN resume_session(session.pause_manager,
                                                 session.id, clock).result
                             ELSE 0
                  e == split_end(session, clock)
                  r == save_summary(e.session, clock)
                  auto_note == <<"continuing session", session.id, selected>>
                  rows == saved_rows(r.session, r.summary[1], auto_note,
                                     current_location, current_equipment)
              IN /\ selected # << >>
                 /\ prof # << >>
                 /\ Len(sessions_csv) < MaxRows
                 /\ sessions_csv' = sessions_csv \o rows.sessions
                 /\ pauses_csv' = pauses_csv \o rows.pauses
                 /\ last_profile' = selected
                 /\ current_location' = prof[1].location
                 /\ current_equipment' = prof[1].equipment
                 /\ \E d \in 0..MaxSkew :
                      /\ d = 0 \/ clock + d <= MaxClock
                      /\ clock' = clock + d
                      /\ session' = StudySession_start(StudySession_init, clock,
                                                       clock + d).session
                 /\ ret' = [op |-> "change_profile_during_session",
                            val |-> e.result]
                 /\ emitted' = (IF resumed > 0 THEN <<Sig("Running")>>
                                ELSE << >>) \o <<Sig("Running")>>
         /\ UNCHANGED <<next_uuid, configVars, catalogVars, syncVars>>

\* the tray menu: Start, Pause, Continue, End and the profile entries
NextTray ==
    \/ tick
    \/ start_session
    \/ pause
    \/ resume
    \/ end_session
    \/ change_profile
    \/ change_profile_during_session

SpecTray == InitTray /\ [][NextTray]_vars

(* ======================= properties: the session ===================== *)
Running == session.is_running
Paused == session.id \in DOMAIN session.pause_manager.active_pauses
Completed == session.pause_manager.completed_pauses
EndSucceeded == ret.op = "end" /\ ret.val # << >>
Summary == ret.val[1]

\* C1: the summary of a successful end() has active_time + total_pause =
\* total_duration, where total_duration is end_time - start_time in whole
\* seconds and total_pause is the sum of the session's completed pauses'
\* durations.
C1_ActivePlusPauseIsTotal ==
    EndSucceeded =>
        /\ Summary.active_time + Summary.total_pause = Summary.total_duration
        /\ Summary.total_duration =
               (session.end_time - session.start_time) \div TicksPerSecond
        /\ Summary.total_pause =
               SumOf([i \in 1..Len(Completed) |->
                         IF Completed[i].session_id = session.id
                         THEN (Completed[i].ended_at - Completed[i].started_at)
                                  \div TicksPerSecond
                         ELSE 0])

\* a session that ended paused, a second or more after that pause began, with a
\* completed pause of a second or more before it
C1_Witness ==
    /\ EndSucceeded
    /\ Len(Completed) = 1
    /\ Summary.total_pause >= 1
    /\ Summary.active_time >= 1
    /\ next_uuid = 3
    /\ clock >= session.end_time + TicksPerSecond

\* C2: a session id has at most one active pause, and pause() (start_pause)
\* for an id that has an active pause returns None and leaves the pause
\* manager, and the active pause in it, as they were.
C2_SecondPauseRejected ==
    /\ [](\A k \in DOMAIN session.pause_manager.active_pauses :
            /\ session.pause_manager.active_pauses[k].session_id = k
            /\ k = session.id)
    /\ [][(pause /\ Running /\ Paused) =>
            /\ ret'.val = << >>
            /\ session' = session
            /\ next_uuid' = next_uuid]_vars

\* pause() was called, and refused, while a pause was active
C2_Witness ==
    /\ ret.op = "pause"
    /\ ret.val = << >>
    /\ Running
    /\ Paused
    /\ clock > session.pause_manager.active_pauses[session.id].started_at

\* C3: resume() (end_pause, resume_session) for an id without an active pause
\* returns 0 and changes neither active_pauses nor completed_pauses, so no
\* pause is completed twice.
C3_ResumeWithoutPauseIsNoOp ==
    /\ [](\A i, j \in 1..Len(Completed) :
            Completed[i].id = Completed[j].id => i = j)
    /\ [][(resume /\ Running /\ ~Paused) =>
            /\ ret'.val = 0
            /\ session' = session]_vars

\* resume() returned 0 after the one pause, a second long, was completed
C3_Witness ==
    /\ ret.op = "resume"
    /\ ret.val = 0
    /\ Running
    /\ ~Paused
    /\ Len(Completed) = 1
    /\ Completed[1].duration_seconds >= 1

\* C4: end() on a running session with an active pause sets end_time to that
\* pause's started_at, removes the pause from active_pauses without appending
\* it to completed_pauses, and the summary's pauses, pause_count and
\* total_pause are those of the completed pauses alone.
C4_EndWhilePaused ==
    [][(end /\ Running /\ Paused) =>
        LET p == session.pause_manager.active_pauses[session.id]
            s == ret'.val[1]
        IN /\ ret'.val # << >>
           /\ session'.end_time = p.started_at
           /\ session.id \notin DOMAIN session'.pause_manager.active_pauses
           /\ session'.pause_manager.completed_pauses = Completed
           /\ s.pauses = Completed
           /\ \A i \in 1..Len(s.pauses) : s.pauses[i].id # p.id
           /\ s.pause_count = Len(Completed)
           /\ s.total_pause = SumDurations(Completed)]_vars

\* the only pause ever created is gone at the end of the session, and the
\* session ended when that pause began, before now
C4_Witness ==
    /\ EndSucceeded
    /\ next_uuid = 2
    /\ Completed = << >>
    /\ ~Paused
    /\ Summary.pause_count = 0
    /\ session.start_time < session.end_time
    /\ session.end_time < clock

\* C5: start at T0, one pause at T0+a, resume at T0+b, end at T0+c, in whole
\* seconds with 0 <= a < b <= c: total_duration = c, total_pause = b - a,
\* active_time = c - (b - a), pause_count = 1.
C5_OnePauseTotals ==
    (/\ EndSucceeded
     /\ session.end_time = clock
     /\ Len(Completed) = 1
     /\ \A t \in {session.start_time, session.end_time,
                  Completed[1].started_at, Completed[1].ended_at} :
            t % TicksPerSecond = 0
     /\ Completed[1].started_at < Completed[1].ended_at)
    => LET T0 == session.start_time
           a == (Completed[1].started_at - T0) \div TicksPerSecond
           b == (Completed[1].ended_at - T0) \div TicksPerSecond
           c == (session.end_time - T0) \div TicksPerSecond
       IN /\ Summary.total_duration = c
          /\ Summary.total_pause = b - a
          /\ Summary.active_time = c - (b - a)
          /\ Summary.pause_count = 1

\* the documented example: pause at 5 minutes, resume at 8, end at 20
C5_Witness ==
    /\ EndSucceeded
    /\ session.start_time = 0
    /\ Len(Completed) = 1
    /\ Completed[1].started_at = 300 * TicksPerSecond
    /\ Completed[1].ended_at = 480 * TicksPerSecond
    /\ session.end_time = 1200 * TicksPerSecond
    /\ Summary.total_duration = 1200
    /\ Summary.total_pause = 180
    /\ Summary.active_time = 1020
    /\ Summary.pause_count = 1

\* C6: after a successful end(), every further end() before the next start()
\* returns {} and leaves the session and its pause manager unchanged.
C6_SecondEndIsNoOp ==
    [][(end /\ ~Running /\ session.end_time # None) =>
        /\ ret'.val = << >>
        /\ session' = session]_vars

\* end() returned {} on a session that had ended
C6_Witness ==
    /\ ret.op = "end"
    /\ ret.val = << >>
    /\ ~Running
    /\ session.end_time # None
    /\ session.end_time < clock

\* C16: start() on a running session returns False, and pause(), resume()
\* and end() on a session that is not running return None, 0 and {}; each
\* leaves id, is_running, start_time, end_time, active_pauses and
\* completed_pauses as they were and emits no status_changed.
C16_InvalidTransitionRejected ==
    [][/\ (Running /\ start) =>
            (ret'.val = FALSE /\ session' = session /\ emitted' = << >>)
       /\ (~Running /\ pause) =>
            (ret'.val = << >> /\ session' = session /\ emitted' = << >>
             /\ next_uuid' = next_uuid)
       /\ (~Running /\ resume) =>
            (ret'.val = 0 /\ session' = session /\ emitted' = << >>)
       /\ (~Running /\ end) =>
            (ret'.val = << >> /\ session' = session /\ emitted' = << >>)]_vars

\* start() was refused on a session that is running and paused
C16_Witness ==
    /\ ret = [op |-> "start", val |-> FALSE]
    /\ Running
    /\ Paused
    /\ emitted = << >>
    /\ clock > session.start_time

\* C17: right after a successful start() the pause manager has no active and
\* no completed pause, and every pause in the summary of that session's end()
\* has the session's id and began at or after its start_time.
C17_NoPauseLeaks ==
    /\ [][(~Running /\ start) =>
            /\ ret'.val = TRUE
            /\ session'.pause_manager.active_pauses = EmptyDict
            /\ session'.pause_manager.completed_pauses = << >>]_vars
    /\ [](EndSucceeded =>
            /\ Summary.pause_count = Len(Summary.pauses)
            /\ \A i \in 1..Len(Summary.pauses) :
                 /\ Summary.pauses[i].session_id = session.id
                 /\ Summary.pauses[i].started_at >= session.start_time)

\* a session has just started after one that took two pauses and ended
C17_Witness ==
    /\ ret = [op |-> "start", val |-> TRUE]
    /\ next_uuid = 3
    /\ session.end_time # None
    /\ session.start_time > session.end_time
    /\ session.pause_manager = PauseManager_init

(* ================== properties: the store and the sync =============== *)
SessionRowsOf(session_id) ==
    {i \in 1..Len(sessions_csv) : sessions_csv[i].session_id = session_id}
PauseRowsOf(session_id) ==
    {j \in 1..Len(pauses_csv) : pauses_csv[j].session_id = session_id}
Ended == ~Running /\ session.start_time # None /\ session.end_time # None

\* C7: after any number of save_session calls for one ended session, the store
\* holds one session row for its session_id and one pause row per completed
\* pause.
C7_SaveAgainDuplicatesNothing ==
    (ret.op = "save" /\ Ended) =>
        /\ Cardinality(SessionRowsOf(session.id)) = 1
        /\ Cardinality(PauseRowsOf(session.id)) = Len(Completed)

\* C8: after save_session into an empty store, fetch_unsynced_sessions returns
\* one row with the session's id and the summary's total_duration,
\* active_time, pause_count and total_pause, and
\* fetch_unsynced_pauses_for_session returns the summary's pauses (numbers
\* and timestamps read back from their CSV text).
C8_SaveFetchRoundTrip ==
    (ret.op = "save" /\ Len(sessions_csv) = 1) =>
        LET rows == fetch_unsynced_sessions(sessions_csv)
            row == rows[1]
            prs == fetch_unsynced_pauses_for_session(pauses_csv, session.id)
            total == (session.end_time - session.start_time) \div TicksPerSecond
            paused == SumOf([i \in 1..Len(Completed) |->
                                Completed[i].duration_seconds])
        IN /\ Ended
           /\ Len(rows) = 1
           /\ row.session_id = session.id
           /\ fromisoformat(row.started_at) = session.start_time
           /\ fromisoformat(row.ended_at) = session.end_time
           /\ ParseInt(row.total_duration_seconds) = total
           /\ ParseInt(row.total_pause_duration_seconds) = paused
           /\ ParseInt(row.active_time_seconds) = total - paused
           /\ ParseInt(row.pause_count) = Len(Completed)
           /\ prs = pauses_csv
           /\ Len(prs) = Len(Completed)
           /\ \A i \in 1..Len(prs) :
                /\ prs[i].id = Completed[i].id
                /\ prs[i].session_id = session.id
                /\ prs[i].reason = Completed[i].reason
                /\ fromisoformat(prs[i].started_at) = Completed[i].started_at
                /\ fromisoformat(prs[i].ended_at) = Completed[i].ended_at
                /\ ParseInt(prs[i].duration_seconds) = Completed[i].duration_seconds

\* a session with two pauses, one of a second, saved into the empty store
C8_Witness ==
    /\ ret.op = "save"
    /\ Len(sessions_csv) = 1
    /\ Len(pauses_csv) = 2
    /\ ParseInt(sessions_csv[1].total_pause_duration_seconds) = 1
    /\ ParseInt(sessions_csv[1].total_duration_seconds) = 1
    /\ ParseInt(sessions_csv[1].active_time_seconds) = 0

SyncEnded == pc = "done" /\ posts # << >>
PausePostsAcked(i) ==
    \A k \in 1..Len(posts) :
        (posts[k].item = i /\ posts[k].kind = "session-pauses") => posts[k].ok

\* C9: when a configured sync has ended, a session row it read is gone from
\* the store if and only if every pause POST of that row was acknowledged,
\* whatever the outcome of its session-log POST.
C9_SessionDeletedIffPausesAcked ==
    SyncEnded =>
        \A i \in 1..Len(prepared) :
            (SessionRowsOf(prepared[i].session.session_id) = {})
                <=> PausePostsAcked(i)

\* C10: when a configured sync has ended, a pause row whose POST was
\* acknowledged is gone from the store, and a pause row whose POST failed is
\* still there, and so is its session row.
C10_PauseDeletedIffAcked ==
    SyncEnded =>
        \A k \in 1..Len(posts) :
            posts[k].kind = "session-pauses" =>
                LET stored == \E j \in 1..Len(pauses_csv) :
                                  pauses_csv[j].id = posts[k].id
                    sid == prepared[posts[k].item].session.session_id
                IN IF posts[k].ok THEN ~stored
                   ELSE stored /\ SessionRowsOf(sid) # {}

(* ========================= properties: the sync ====================== *)
Configured == session_log_endpoint # << >> /\ session_pauses_endpoint # << >>
Posting == pc \in {"session_log", "session_pauses"}
LastEmitted == emitted[Len(emitted)]

\* C11: with either endpoint unconfigured and a session row in storage,
\* sync_unsynced issues no POST, leaves both tables as they are, reports
\* 'Sync skipped (endpoints not configured)' and returns False.
C11_UnconfiguredSyncSkips ==
    /\ [](~Configured => (~Posting /\ posts = << >>))
    /\ [][(sync_unsynced /\ ~Configured /\ sessions_csv # << >>) =>
            /\ pc' = "done"
            /\ posts' = << >>
            /\ sessions_csv' = sessions_csv
            /\ pauses_csv' = pauses_csv
            /\ ret'.val = <<FALSE>>
            /\ emitted' = <<Sig("Sync skipped (endpoints not configured)")>>]_vars

\* the sync was skipped with only the session-pauses endpoint unset, over
\* stored sessions and pauses
C11_Witness ==
    /\ pc = "done"
    /\ session_log_endpoint # << >>
    /\ session_pauses_endpoint = << >>
    /\ Len(sessions_csv) = 2
    /\ pauses_csv # << >>
    /\ ret = [op |-> "sync", val |-> <<FALSE>>]

\* C12: a configured sync over a non-empty store returns True and reports
\* 'Sync completed' if and only if every POST of the run was acknowledged;
\* otherwise it returns False and reports 'Sync partially completed'.
C12_CompletedIffAllAcked ==
    (pc = "done" /\ posts # << >>) =>
        IF \A k \in 1..Len(posts) : posts[k].ok
        THEN ret.val = <<TRUE>> /\ LastEmitted = Sig("Sync completed")
        ELSE ret.val = <<FALSE>> /\ LastEmitted = Sig("Sync partially completed")

\* the first POST of the run failed and every later one was acknowledged
C12_Witness ==
    /\ pc = "done"
    /\ Len(posts) >= 3
    /\ ~posts[1].ok
    /\ \A k \in 2..Len(posts) : posts[k].ok
    /\ ret.val = <<FALSE>>

\* the POSTs a run over prepared items makes: for each item its session-log
\* POST, then one session-pauses POST for each of its pauses
RECURSIVE ExpectedPosts(_, _)
ExpectedPosts(items, i) ==
    IF i > Len(items) THEN << >>
    ELSE <<[item |-> i, kind |-> "session-log",
            id |-> items[i].session.session_id]>>
         \o [j \in 1..Len(items[i].pauses) |->
                [item |-> i, kind |-> "session-pauses",
                 id |-> items[i].pauses[j].id]]
         \o ExpectedPosts(items, i + 1)

PostsMade == [k \in 1..Len(posts) |->
                 [item |-> posts[k].item, kind |-> posts[k].kind,
                  id |-> posts[k].id]]

\* C13: a configured sync prepares one item for each session row it read,
\* with the pause rows read for that row's session_id; whatever the POSTs
\* return, it makes exactly the session-log POST of each item and one
\* session-pauses POST for each of the item's pauses, and then ends.
C13_EveryPayloadPosted ==
    /\ [][(sync_unsynced /\ pc' = "session_log") =>
            /\ Len(prepared') = Len(sessions_csv)
            /\ \A i \in 1..Len(sessions_csv) :
                 /\ prepared'[i].session.session_id = sessions_csv[i].session_id
                 /\ [j \in 1..Len(prepared'[i].pauses) |-> prepared'[i].pauses[j].id]
                      = LET rows == SelectSeq(pauses_csv, LAMBDA r :
                                        r.session_id = sessions_csv[i].session_id)
                        IN [j \in 1..Len(rows) |-> rows[j].id]]_vars
    /\ []((pc = "done" /\ posts # << >>) => PostsMade = ExpectedPosts(prepared, 1))
    /\ (Posting ~> pc = "done")

\* a run over two sessions and two pauses ended after its first three POSTs
\* had failed
C13_Witness ==
    /\ pc = "done"
    /\ Len(prepared) = 2
    /\ Len(posts) = 4
    /\ \A k \in 1..3 : ~posts[k].ok
    /\ \E k \in 1..4 : posts[k].kind = "session-pauses" /\ posts[k].item = 2

\* C14: with no session row in storage, sync_unsynced reports 'Nothing to
\* sync' and returns True without a POST or a deletion, endpoints configured
\* or not.
C14_NothingToSync ==
    [][(sync_unsynced /\ sessions_csv = << >>) =>
        /\ pc' = "done"
        /\ posts' = << >>
        /\ sessions_csv' = sessions_csv
        /\ pauses_csv' = pauses_csv
        /\ ret'.val = <<TRUE>>
        /\ emitted' = <<Sig("Nothing to sync")>>]_vars

\* nothing to sync, with no endpoint configured
C14_Witness ==
    /\ pc = "done"
    /\ sessions_csv = << >>
    /\ session_log_endpoint = << >>
    /\ session_pauses_endpoint = << >>
    /\ ret = [op |-> "sync", val |-> <<TRUE>>]
    /\ emitted = <<Sig("Nothing to sync")>>

Refused == [kind |-> "status", status |-> 404]

\* C15: a POST that times out or fails in transport leaves sync_unsynced in
\* the state a 404 response to that POST leaves it in: the same rows deleted,
\* the same running result, the same next POST, and the run goes on.
C15_TimeoutIsRefusal ==
    [][\A o \in Outcomes : o.kind # "status" =>
          /\ session_log_returns(o) => session_log_returns(Refused)
          /\ session_pauses_returns(o) => session_pauses_returns(Refused)]_vars

\* the run ended on a pause POST that timed out, after an acknowledged one
C15_Witness ==
    /\ pc = "done"
    /\ last_outcome = "timeout"
    /\ Len(posts) >= 2
    /\ posts[Len(posts)].kind = "session-pauses"
    /\ ~posts[Len(posts)].ok
    /\ posts[Len(posts) - 1].ok
    /\ ret.val = <<FALSE>>
    /\ sessions_csv # << >>

\* C18: every session row in storage has a non-empty ended_at, every pause
\* row has a non-empty ended_at, and the session is not running when
\* save_session returns.
C18_OnlyEndedSessionsStored ==
    /\ \A i \in 1..Len(sessions_csv) :
         sessions_csv[i].started_at # << >> /\ sessions_csv[i].ended_at # << >>
    /\ \A j \in 1..Len(pauses_csv) : pauses_csv[j].ended_at # << >>
    /\ ret.op = "save" => ~Running

\* save_session on a running, paused session: it was ended when the pause
\* began, and the pause was not written
C18_Witness ==
    /\ ret.op = "save"
    /\ Len(sessions_csv) = 1
    /\ pauses_csv = << >>
    /\ next_uuid = 2
    /\ ~Running
    /\ session.end_time < clock
    /\ fromisoformat(sessions_csv[1].ended_at) = session.end_time

\* C19: no sync run deletes a session row whose session-log POST was not
\* acknowledged: when a configured sync has ended, a session row it read is
\* gone from the store only if its session-log POST and all of its pause
\* POSTs were acknowledged.
C19_DeletedOnlyIfLogAcked ==
    SyncEnded =>
        \A i \in 1..Len(prepared) :
            SessionRowsOf(prepared[i].session.session_id) = {} =>
                \A k \in 1..Len(posts) : posts[k].item = i => posts[k].ok

\* C20 as claimed: after delete_session_by_session_id(id) the store holds no
\* session row and no pause row of that id, the rows of other sessions are
\* as before, and the count returned is the number of rows removed.
C20_DeleteRemovesSessionAndPauses ==
    [][\A id \in StoredIds : db_delete_session(id) =>
          /\ \A i \in 1..Len(sessions_csv') : sessions_csv'[i].session_id # id
          /\ \A j \in 1..Len(pauses_csv') : pauses_csv'[j].session_id # id
          /\ sessions_csv' = SelectSeq(sessions_csv, LAMBDA r : r.session_id # id)
          /\ pauses_csv' = SelectSeq(pauses_csv, LAMBDA r : r.session_id # id)
          /\ ret'.val[2] = (Len(sessions_csv) - Len(sessions_csv'))
                             + (Len(pauses_csv) - Len(pauses_csv'))
          /\ ret'.val[2] = Cardinality(SessionRowsOf(id))
                             + Cardinality(PauseRowsOf(id))]_vars

\* C20 as amended: delete_session_by_session_id(id) removes every session
\* row of that id and no pause row; the other session rows keep their order,
\* and the count returned is the number of session rows removed.
C20_DeleteRemovesSessionRows ==
    [][\A id \in StoredIds : db_delete_session(id) =>
          /\ \A i \in 1..Len(sessions_csv') : sessions_csv'[i].session_id # id
          /\ sessions_csv' = SelectSeq(sessions_csv, LAMBDA r : r.session_id # id)
          /\ pauses_csv' = pauses_csv
          /\ ret'.val = <<id, Cardinality(SessionRowsOf(id))>>]_vars

\* two session rows of one id were removed and the pause rows of that id
\* are still in pauses.csv
C20_Witness ==
    /\ ret.op = "delete_session"
    /\ ret.val[2] = 2
    /\ sessions_csv = << >>
    /\ Len(pauses_csv) = 2
    /\ \A j \in 1..Len(pauses_csv) : pauses_csv[j].session_id = ret.val[1]

(* ================= properties: the database on its own =============== *)
PauseRowsWithId(ids) ==
    {j \in 1..Len(pauses_csv) : pauses_csv[j].id \in SeqRange(ids)}

\* C21: delete_pauses_by_ids(ids) removes the pause rows whose id is among
\* ids and no other, leaves the other pause rows in their order and every
\* session row as it was, and returns the number of rows removed; with no
\* id given it changes nothing and returns 0.
C21_DeletePausesRemovesExactlyIds ==
    [][\A ids \in PauseIdLists : db_delete_pauses(ids) =>
          /\ \A j \in 1..Len(pauses_csv') : pauses_csv'[j].id \notin SeqRange(ids)
          /\ pauses_csv' = SelectSeq(pauses_csv,
                                     LAMBDA r : \A k \in 1..Len(ids) : r.id # ids[k])
          /\ sessions_csv' = sessions_csv
          /\ ret'.val[2] = Cardinality(PauseRowsWithId(ids))
          /\ ret'.val[2] = Len(pauses_csv) - Len(pauses_csv')
          /\ ids = << >> => (pauses_csv' = pauses_csv /\ ret'.val[2] = 0)]_vars

\* asked for an id no row has and then the id of one of two stored pauses:
\* that row is gone, the other is left, and so are both session rows
C21_Witness ==
    /\ ret.op = "delete_pauses"
    /\ Len(ret.val[1]) = 2
    /\ ret.val[1][1] = MaxPauseRows + 1
    /\ ret.val[2] = 1
    /\ Len(pauses_csv) = 1
    /\ pauses_csv[1].id \notin SeqRange(ret.val[1])
    /\ Len(sessions_csv) = 2

\* C22: save_session on a session that never started (start_time None, not
\* running) returns without an error, writes no session row and no pause
\* row, and leaves the session as it was.
C22_UnstartedSaveWritesNothing ==
    [][(save_session /\ session.start_time = None /\ ~session.is_running) =>
          /\ sessions_csv' = sessions_csv
          /\ pauses_csv' = pauses_csv
          /\ session' = session
          /\ ret' = [op |-> "save", val |-> << >>]]_vars

\* save_session returned on the session that never started, over a store
\* that holds a session row and a pause row of earlier sessions
C22_Witness ==
    /\ ret.op = "save"
    /\ session = StudySession_init
    /\ Len(sessions_csv) = 1
    /\ Len(pauses_csv) = 1

\* C23: for a session that end() has ended, the summary save_session
\* rebuilds from the session's fields and pause manager is the summary that
\* end() returned, whatever pauses were taken and also when the session
\* ended paused; and save_session called after end() appends a session row
\* with that summary's totals and the pause rows of that summary's pauses.
C23_ReconstructedSummaryIsEndSummary ==
    /\ [](EndSucceeded =>
            /\ save_summary(session, clock).summary = ret.val
            /\ save_summary(session, clock).session = session)
    /\ [][(save_session /\ EndSucceeded) =>
            LET row == sessions_csv'[Len(sessions_csv')]
            IN /\ Len(sessions_csv') = Len(sessions_csv) + 1
               /\ row.session_id = Summary.session_id
               /\ row.total_duration_seconds = str(Summary.total_duration)
               /\ row.total_pause_duration_seconds = str(Summary.total_pause)
               /\ row.active_time_seconds = str(Summary.active_time)
               /\ row.pause_count = str(Summary.pause_count)
               /\ pauses_csv' = pauses_csv \o
                      [i \in 1..Len(Summary.pauses) |-> pause_row(Summary.pauses[i])]
               /\ session' = session]_vars

\* the one row of the store was written after end(): the session took one
\* pause, was not paused when it ended, and ended before the save
C23_Witness ==
    /\ ret.op = "save"
    /\ Len(sessions_csv) = 1
    /\ Len(pauses_csv) = 1
    /\ next_uuid = 2
    /\ ~Running
    /\ session.start_time < session.end_time
    /\ session.end_time < clock
    /\ fromisoformat(sessions_csv[1].ended_at) = session.end_time

(* ==================== properties: the order of a sync ================ *)
\* the ids of the pause payloads of prepared item i
ItemPauseIds(i) == {prepared[i].pauses[j].id : j \in 1..Len(prepared[i].pauses)}

\* the POST the run is waiting for
InFlight ==
    [item |-> item,
     kind |-> IF pc = "session_log" THEN "session-log" ELSE "session-pauses",
     id |-> IF pc = "session_log" THEN prepared[item].session.session_id
            ELSE prepared[item].pauses[pidx].id]

C25_PostsSequentialInOrder ==
    /\ [][(sync_unsynced /\ pc' = "session_log") =>
            /\ Len(prepared') = Len(sessions_csv)
            /\ \A i \in 1..Len(sessions_csv) :
                 prepared'[i].session.session_id = sessions_csv[i].session_id]_vars
    /\ []((Posting \/ pc = "done") =>
            /\ Len(posts) <= Len(ExpectedPosts(prepared, 1))
            /\ PostsMade = SubSeq(ExpectedPosts(prepared, 1), 1, Len(posts)))
    /\ [](Posting =>
            /\ Len(posts) < Len(ExpectedPosts(prepared, 1))
            /\ InFlight = ExpectedPosts(prepared, 1)[Len(posts) + 1])
    /\ [][storeVars' # storeVars =>
            /\ \/ pc = "session_log" /\ prepared[item].pauses = << >>
               \/ pc = "session_pauses" /\ pidx = Len(prepared[item].pauses)
            /\ \A k \in 1..Len(posts) : posts[k].item <= item
            /\ \/ pc' = "session_log" /\ item' = item + 1
               \/ pc' = "done"]_vars

\* the run is waiting for the second pause POST of its second session, after
\* the first session's row was deleted
C25_Witness ==
    /\ pc = "session_pauses"
    /\ item = 2
    /\ pidx = 2
    /\ Len(posts) = 3
    /\ Len(sessions_csv) = 1
    /\ Len(pauses_csv) = 2

(* ================ properties: catalogs and profiles ================== *)
NoDuplicates(q) == \A i, j \in 1..Len(q) : q[i] = q[j] => i = j
ProfileNames == [i \in 1..Len(profiles) |-> profiles[i].name]

\* C26: the catalogs and the profile store keep their names unique: adding a
\* location or equipment name that is present leaves the catalog as it was,
\* removing a name that is absent leaves it as it was, rename_profile with a
\* blank new name fails and changes nothing, and whatever save_profile,
\* rename_profile and delete_profile calls were made, no two profiles have
\* the same name.
C26_NamesStayUnique ==
    /\ [](NoDuplicates(location_catalog) /\ NoDuplicates(equipment_catalog))
    /\ [][/\ (ret'.op = "add_location" /\ db_add_location
                /\ strip(ret'.val[1]) \in SeqRange(location_catalog))
              => (location_catalog' = location_catalog /\ ret'.val[2] = TRUE)
          /\ (ret'.op = "add_equipment" /\ db_add_equipment
                /\ strip(ret'.val[1]) \in SeqRange(equipment_catalog))
              => (equipment_catalog' = equipment_catalog /\ ret'.val[2] = TRUE)
          /\ (ret'.op = "remove_location" /\ db_remove_location
                /\ ret'.val[1] \notin SeqRange(location_catalog))
              => (location_catalog' = location_catalog /\ ret'.val[2] = 0)
          /\ (ret'.op = "remove_equipment" /\ db_remove_equipment
                /\ ret'.val[1] \notin SeqRange(equipment_catalog))
              => (equipment_catalog' = equipment_catalog /\ ret'.val[2] = 0)
          /\ (ret'.op = "rename_profile" /\ db_rename_profile
                /\ strip(ret'.val[2]) = << >>)
              => (profiles' = profiles /\ ret'.val[3] = FALSE)]_vars
    /\ [](NoDuplicates(ProfileNames))

(* =================== properties: the session, again ================== *)
ActivePauses == session.pause_manager.active_pauses

\* C27: whenever the session is running, after whatever start, pause, resume
\* and end calls on the one StudySession (start() after end() among them),
\* end_time is None.
C27_EndTimeAbsentWhileRunning == Running => session.end_time = None

\* C28: no pause is both active and completed: every pause in active_pauses
\* has ended_at None, every pause in completed_pauses has ended_at set and
\* duration_seconds = ended_at - started_at in whole seconds, and no pause is
\* in both collections.
C28_ActiveXorCompleted ==
    /\ \A k \in DOMAIN ActivePauses :
         /\ ActivePauses[k].ended_at = None
         /\ ActivePauses[k].started_at # None
    /\ \A i \in 1..Len(Completed) :
         /\ Completed[i].ended_at # None
         /\ Completed[i].ended_at >= Completed[i].started_at
         /\ Completed[i].duration_seconds =
                (Completed[i].ended_at - Completed[i].started_at)
                    \div TicksPerSecond
    /\ \A k \in DOMAIN ActivePauses : \A i \in 1..Len(Completed) :
         ActivePauses[k].id # Completed[i].id

\* a pause is active, more than a second after another, a second long, was
\* completed
C28_Witness ==
    /\ Running
    /\ Paused
    /\ Len(Completed) = 1
    /\ Completed[1].duration_seconds = 1
    /\ ActivePauses[session.id].started_at
           >= Completed[1].ended_at + TicksPerSecond
    /\ clock > ActivePauses[session.id].started_at

C30_ResumeEmitsIffPauseClosed ==
    [][(resume /\ Running) =>
          LET closed == /\ Paused
                        /\ session.id \notin DOMAIN session'.pause_manager.active_pauses
                        /\ Len(session'.pause_manager.completed_pauses)
                               = Len(Completed) + 1
          IN /\ (emitted' = <<Sig("Running")>>) <=> closed
             /\ closed => ret'.val > 0]_vars

(* ================= properties: the life of a session ================= *)
\* C31 as claimed: once end() has succeeded on a StudySession, no later
\* start, pause, resume or end call on it makes is_running true again.
C31_EndedIsTerminal ==
    [][(~Running /\ session.end_time # None) => ~session'.is_running]_vars

\* C31 as amended: once end() has succeeded, pause, resume and end leave the
\* session as it is, not running; start() on the same object succeeds and
\* begins a new session, running, with the id and start_time of the clock and
\* a new pause manager without pauses.
C31_EndedLeftOnlyByStart ==
    [][(~Running /\ session.end_time # None) =>
          /\ ret'.op # "start" => session' = session
          /\ (ret'.op = "start" /\ start) =>
                /\ ret'.val = TRUE
                /\ session'.is_running
                /\ session'.id = strftime(clock)
                /\ session'.start_time >= clock
                /\ session'.pause_manager = PauseManager_init]_vars

\* the session that was started again after its end is running and paused
C31_Witness ==
    /\ Running
    /\ Paused
    /\ session.end_time # None
    /\ session.start_time > session.end_time
    /\ Completed = << >>
    /\ next_uuid = 3

\* a timestamp with its minute (and all above) kept, second and fraction zero
WholeMinute(ts) == <<ts[1], 0, 0>>
\* seconds from one timestamp text to another
SecondsBetween(a, b) == IntSeconds(fromisoformat(b) - fromisoformat(a))

\* C32: every started_at and ended_at of a payload sync_unsynced builds for
\* its POSTs is the stored timestamp with second and fraction zero and the
\* minute as stored, truncating it again changes nothing, and the duration
\* and count fields are the stored ones.
C32_PayloadTimestampsTruncated ==
    [][(sync_unsynced /\ sessions_csv # << >>) =>
        LET rows == fetch_unsynced_sessions(sessions_csv)
        IN /\ Len(prepared') = Len(rows)
           /\ \A i \in 1..Len(rows) :
                LET row == rows[i]
                    pl == prepared'[i].session
                    prs == fetch_unsynced_pauses_for_session(pauses_csv,
                                                             row.session_id)
                IN /\ pl.started_at = WholeMinute(row.started_at)
                   /\ pl.ended_at = WholeMinute(row.ended_at)
                   /\ format_ts_for_api(pl.started_at) = pl.started_at
                   /\ format_ts_for_api(pl.ended_at) = pl.ended_at
                   /\ pl.total_duration_seconds = row.total_duration_seconds
                   /\ pl.pause_count = row.pause_count
                   /\ pl.total_pause_duration_seconds =
                          row.total_pause_duration_seconds
                   /\ Len(prepared'[i].pauses) = Len(prs)
                   /\ \A j \in 1..Len(prs) :
                        LET pp == prepared'[i].pauses[j]
                        IN /\ pp.started_at = WholeMinute(prs[j].started_at)
                           /\ pp.ended_at = WholeMinute(prs[j].ended_at)
                           /\ format_ts_for_api(pp.started_at) = pp.started_at
                           /\ format_ts_for_api(pp.ended_at) = pp.ended_at
                           /\ pp.duration_seconds = prs[j].duration_seconds]_vars

\* a POST is in flight whose session began late in one minute and ended early
\* in the next: the payload keeps the stored 4 s although its timestamps are a
\* minute apart, and its pause has stored seconds too
C32_Witness ==
    /\ pc = "session_log" /\ item = 1
    /\ sessions_csv[1].started_at = <<0, 59, 1>>
    /\ sessions_csv[1].ended_at = <<2, 1, 1>>
    /\ prepared[1].session.started_at = <<0, 0, 0>>
    /\ prepared[1].session.ended_at = <<2, 0, 0>>
    /\ prepared[1].session.total_duration_seconds = str(62)
    /\ SecondsBetween(prepared[1].session.started_at,
                      prepared[1].session.ended_at) = 120
    /\ Len(prepared[1].pauses) = 1
    /\ pauses_csv[1].started_at = <<1, 1, 1>>
    /\ prepared[1].pauses[1].started_at = <<1, 0, 0>>
    /\ prepared[1].pauses[1].duration_seconds = pauses_csv[1].duration_seconds

(* ================= properties: what a save appends ==================== *)
\* C33: a save_session of a session that is running, or that has ended,
\* appends one session row and as many pause rows as the pause_count written
\* in that row, each with the row's session_id, after the rows the store held,
\* which stay as they were; a save_session that returns early writes nothing.
C33_SaveAppendsOneRowAndItsPauses ==
    [][save_session =>
        IF Running \/ Ended
        THEN LET row == sessions_csv'[Len(sessions_csv')]
                 n == Len(pauses_csv)
             IN /\ Len(sessions_csv') = Len(sessions_csv) + 1
                /\ SubSeq(sessions_csv', 1, Len(sessions_csv)) = sessions_csv
                /\ row.session_id = session.id
                /\ Len(pauses_csv') = n + ParseInt(row.pause_count)
                /\ SubSeq(pauses_csv', 1, n) = pauses_csv
                /\ \A j \in (n + 1)..Len(pauses_csv') :
                      pauses_csv'[j].session_id = row.session_id
        ELSE UNCHANGED storeVars]_vars

\* the second save wrote a session with two pauses after a first session's
\* row
C33_Witness ==
    /\ ret.op = "save"
    /\ Len(sessions_csv) = 2
    /\ sessions_csv[2].pause_count = str(2)
    /\ sessions_csv[1].pause_count = str(0)
    /\ Len(pauses_csv) = 2
    /\ pauses_csv[2].session_id = sessions_csv[2].session_id

(* ================= properties: the numbers of a summary =============== *)
\* C34: the clock never going back, every summary end() returns has
\* total_duration >= 0, 0 <= total_pause <= total_duration and
\* active_time >= 0, whatever pauses and resumes came before and also when
\* the session ends paused.
C34_SummaryNumbersInRange ==
    EndSucceeded =>
        /\ Summary.total_duration >= 0
        /\ Summary.total_pause >= 0
        /\ Summary.total_pause <= Summary.total_duration
        /\ Summary.active_time >= 0

\* a session ended while its second pause was active, its first pause having
\* taken all of its one second
C34_Witness ==
    /\ EndSucceeded
    /\ next_uuid = 3
    /\ Len(Completed) = 1
    /\ Summary.total_pause = 1
    /\ Summary.total_duration = 1
    /\ Summary.active_time = 0

(* ======================== properties: the tray ======================== *)
\* C38: whatever the tray did (start, end, a profile change that splits the
\* running session), ids being cut to the second, no two session rows in
\* storage have the same session_id.
C38_SessionIdsUnique ==
    \A i, j \in 1..Len(sessions_csv) :
        sessions_csv[i].session_id = sessions_csv[j].session_id => i = j

\* the pause of the session that is active, as a sequence of none or one
ActivePause == IF Paused THEN <<ActivePauses[session.id]>> ELSE << >>

\* C39: a confirmed profile change on a running session splits it: one
\* session row is appended for the old session, with the location and
\* equipment that were current; a pause active at that moment is closed by
\* resume first, so that it is written and counted, completed at the current
\* time, and the old session ends at the current time; the new current
\* session runs under the selected profile with a pause manager holding no
\* pauses.
C39_ProfileChangeSplitsSession ==
    [][(ret'.op = "change_profile_during_session"
        /\ change_profile_during_session /\ Running) =>
        LET row == sessions_csv'[Len(sessions_csv')]
            n == Len(pauses_csv)
            written == SubSeq(pauses_csv', n + 1, Len(pauses_csv'))
            prof == get_profile(profiles, last_profile')
        IN /\ Len(sessions_csv') = Len(sessions_csv) + 1
           /\ SubSeq(sessions_csv', 1, Len(sessions_csv)) = sessions_csv
           /\ SubSeq(pauses_csv', 1, n) = pauses_csv
           /\ row.session_id = session.id
           /\ row.location = current_location
           /\ row.equipment = current_equipment
           /\ fromisoformat(row.started_at) = session.start_time
           /\ fromisoformat(row.ended_at) = clock
           /\ ParseInt(row.pause_count) = Len(Completed) + Len(ActivePause)
           /\ Len(written) = Len(Completed) + Len(ActivePause)
           /\ \A j \in 1..Len(Completed) : written[j] = pause_row(Completed[j])
           /\ Paused =>
                LET last == written[Len(written)]
                IN /\ last.id = ActivePause[1].id
                   /\ last.session_id = session.id
                   /\ fromisoformat(last.started_at) = ActivePause[1].started_at
                   /\ fromisoformat(last.ended_at) = clock
                   /\ ParseInt(last.duration_seconds) =
                          IntSeconds(clock - ActivePause[1].started_at)
           /\ session'.is_running
           /\ session'.id = strftime(clock)
           /\ session'.end_time = None
           /\ session'.pause_manager = PauseManager_init
           /\ prof # << >>
           /\ current_location' = prof[1].location
           /\ current_equipment' = prof[1].equipment]_vars

\* a session started at the desk, moved to a cafe and paused there for a
\* second was split while paused: its row has the cafe, its pause of one
\* second and the time of the split as its end, and the new session runs at
\* the desk with no pause
C39_Witness ==
    /\ ret.op = "change_profile_during_session"
    /\ Len(sessions_csv) = 1
    /\ sessions_csv[1].location = <<"cafe">>
    /\ sessions_csv[1].equipment = <<"laptop", ", ", "tablet">>
    /\ sessions_csv[1].pause_count = str(1)
    /\ sessions_csv[1].total_pause_duration_seconds = str(1)
    /\ fromisoformat(sessions_csv[1].ended_at) = clock
    /\ Len(pauses_csv) = 1
    /\ fromisoformat(pauses_csv[1].ended_at) = clock
    /\ Running /\ ~Paused /\ Completed = << >>
    /\ last_profile = <<"desk">>
    /\ current_location = <<"home">>
    /\ current_equipment = <<"laptop">>

(* ================= properties: the store across syncs ================= *)
\* C35: whatever save_session calls and sync runs were made, and whatever the
\* POSTs returned, every pause row in storage has a session row with its
\* session_id: the next sync reads it with that session.
C35_PauseRowsHaveSession ==
    \A j \in 1..Len(pauses_csv) : SessionRowsOf(pauses_csv[j].session_id) # {}

\* a sync has ended in which the first pause of a session was acknowledged
\* and the second was not: the second is left, with its session row
C35_Witness ==
    /\ SyncEnded
    /\ Len(posts) = 3
    /\ posts[2].ok /\ ~posts[3].ok
    /\ Len(pauses_csv) = 1
    /\ Len(sessions_csv) = 1
    /\ pauses_csv[1].session_id = sessions_csv[1].session_id

\* sub is q with some of its elements removed
RECURSIVE IsSubSeq(_, _)
IsSubSeq(sub, q) ==
    IF sub = << >> THEN TRUE
    ELSE IF q = << >> THEN FALSE
    ELSE IF Head(sub) = Head(q) THEN IsSubSeq(Tail(sub), Tail(q))
    ELSE IsSubSeq(sub, Tail(q))

\* a step of a sync run, from sync_unsynced's first read to run_async's
\* return: the run is under way before the step or after it
SyncStep == pc # "idle" \/ pc' # "idle"

\* C40: a sync run only deletes: at each of its steps, whatever the POSTs
\* return, the session rows and the pause rows in storage afterwards are rows
\* that were there before, field for field and in their order, and the
\* current StudySession with its pause manager is as it was.
C40_SyncOnlyDeletes ==
    [][SyncStep =>
        /\ IsSubSeq(sessions_csv', sessions_csv)
        /\ IsSubSeq(pauses_csv', pauses_csv)
        /\ session' = session
        /\ next_uuid' = next_uuid]_vars

\* a sync has ended while a session was running, paused: of the two session
\* rows read, the first is deleted and the second is left with its pause,
\* whose POST was not acknowledged
C40_Witness ==
    /\ SyncEnded
    /\ Running /\ Paused
    /\ Len(prepared) = 2
    /\ Len(sessions_csv) = 1
    /\ Len(pauses_csv) = 1
    /\ ret.val = <<FALSE>>

\* C37: a row in storage is a row not yet acknowledged: when a sync has
\* ended, no session row whose session-log POST it saw acknowledged and no
\* pause row whose POST it saw acknowledged is in storage, where the next
\* sync would read it and POST it again.
C37_AckedRowsLeaveTheStore ==
    SyncEnded =>
        \A k \in 1..Len(posts) :
            posts[k].ok =>
                /\ posts[k].kind = "session-log" =>
                       SessionRowsOf(posts[k].id) = {}
                /\ posts[k].kind = "session-pauses" =>
                       PauseRowsWithId(<<posts[k].id>>) = {}

\* C36: with both endpoints configured and nothing saved meanwhile, Sync Now
\* chosen again and again and each pause row's POST acknowledged at some
\* run, storage comes to hold no session row and no pause row, and a sync
\* after that reports 'Nothing to sync'.
C36_EventualDrain ==
    Configured ~> /\ sessions_csv = << >>
                  /\ pauses_csv = << >>
                  /\ emitted = <<Sig("Nothing to sync")>>

\* the run that empties the store is a later one: the session took two
\* pauses, one was acknowledged and deleted by an earlier run, and this run
\* read the session with the pause that was left
C36_Witness ==
    /\ Configured
    /\ SyncEnded
    /\ sessions_csv = << >> /\ pauses_csv = << >>
    /\ Len(prepared) = 1
    /\ prepared[1].session.pause_count = str(2)
    /\ Len(prepared[1].pauses) = 1
    /\ Len(posts) = 2
    /\ posts[2].ok

=============================================================================
